---- MODULE Spec2Model ----
\* Verification model of web-ChatApp: the OpenAI-compatible completion gateway
\* (api/openai.py), the tool-call marker parser (core/utils.py), the tenant
\* policy (services/policy.py) and the policy-aware services manager and
\* toolbelt (services/local_manager.py, tools/toolbelt.py).
EXTENDS Integers, Sequences, FiniteSets, TLC

\* ---------------------------------------------------------------- bounds
\* Longest backend event stream explored.
MaxEvents == 3
\* Largest number of seconds the wall clock may advance between the stream's
\* `created` stamp (openai.py:94) and the error chunk's stamp (openai.py:183).
MaxDelay == 1
\* Longest text, in tokens, given to parse_tool_call.
MaxParseLen == 4
\* Most key=value pairs in one enablement header.
MaxPairs == 3
\* Longest list of stop sequences a caller supplies.
MaxStops == 2

\* ---------------------------------------------------------------- state
VARIABLES
    \* --- completion gateway (api/openai.py)
    request,        \* ChatCompletionRequest: [model, stream]
    invokeOk,       \* whether invoke_model_with_response_stream succeeds
    events,         \* response['body']: the backend's event stream
    pos,            \* number of events the for-loop has taken
    pc,             \* where the generator stream_chat_completion is suspended
    out,            \* every item the generator has yielded, in order
    completion_id,  \* local completion_id (0: not assigned)
    uuids,          \* number of uuid.uuid4() draws so far
    raisedAt,       \* Len(out) when an exception was caught, -1 if none
    response,       \* what collect_streaming_response returned
    invocations,    \* calls of bedrock_client.invoke_model_with_response_stream
    body,           \* response['body'], the backend's event stream: "none",
                    \* "open", or "released" once nothing refers to it
    \* --- tenant policy (services/policy.py) applied to one input
    polPolicy,      \* the OperationToolingPolicy under test
    polCall,        \* the last query made of it: [fn, service, operation, kwargs]
    polResult,      \* what the query returned
    polToken,       \* the last get_service_token call: [asked, service, token]
    \* --- services manager and toolbelt (services/local_manager.py, tools/toolbelt.py)
    services_manager,  \* global _services_manager: None or Some(manager)
    services_status,   \* global _services_status[s]["initialized"]
    initResult,        \* what initialize_<s>_service returned: "pending", "ok", "failed"
    reqPolicy,         \* the policy built from each request's headers
    reqPass,           \* whether the request passes its policy to get_services_manager
    rpc,               \* where each request's task is suspended
    lastCall,          \* the most recent dispatch and its outcome
    listing,           \* what the most recent list_available_tools returned
    \* --- tool-call parser (core/utils.py) applied to one input
    parseInput,     \* the text given to parse_tool_call
    parseResult,    \* what the call did: not called, a call, None, or an exception
    \* --- header-derived policy (dependencies/policies.py) for one request
    headers,        \* request.headers: enablement and resource headers
    built,          \* what create_policy_from_headers did: a policy or an HTTPException
    \* --- model adapters (core/llm.py) applied to one input
    llmCall,        \* the call made of an adapter: [fn, model, messages, params,
                    \* tools, stop, response]
    llmResult       \* what the call returned: a payload or a parsed tuple

backendVars == <<invocations, body>>
streamVars == <<request, invokeOk, events, pos, pc, out, completion_id, uuids,
                raisedAt, response, backendVars>>
policyVars == <<polPolicy, polCall, polResult, polToken>>
gateVars == <<services_manager, services_status, initResult, reqPolicy, reqPass,
              rpc, lastCall, listing>>

parseVars == <<parseInput, parseResult>>
headerVars == <<headers, built>>
adapterVars == <<llmCall, llmResult>>

vars == <<streamVars, policyVars, gateVars, parseVars, headerVars, adapterVars>>
nonStreamVars == <<policyVars, gateVars, parseVars, headerVars, adapterVars>>
nonPolicyVars == <<streamVars, gateVars, parseVars, headerVars, adapterVars>>
nonGateVars == <<streamVars, policyVars, parseVars, headerVars, adapterVars>>
nonParseVars == <<streamVars, policyVars, gateVars, headerVars, adapterVars>>
nonHeaderVars == <<streamVars, policyVars, gateVars, parseVars, adapterVars>>
nonAdapterVars == <<streamVars, policyVars, gateVars, parseVars, headerVars>>

\* ---------------------------------------------------------------- values
Null == "null"
NotRaised == -1
NoResponse == [kind |-> "none"]

\* A str is a sequence of tokens; "" is <<>>.  An Optional[str] is a sequence
\* holding at most one str: <<>> is None.
None == <<>>
Some(s) == <<s>>

\* "\n" is whitespace; "{obj}" is the JSON text
\* {"name": "server.get_status", "arguments": {}}.
Whitespace == {"\n"}
ObjText == "{obj}"
Texts == {<<>>, <<"Hel">>, <<"lo", "\n">>, <<"TOOL_START", "\n", ObjText>>}

\* core/llm.py create_llm: the alias table.
model_mapping == {"llama", "nova"}
Models == model_mapping \cup {"gpt"}

\* Backend events as the loop of stream_chat_completion distinguishes them:
\*   generation: decoded chunk with a 'generation' key (text, stop_reason)
\*   delta:      decoded chunk with a 'delta' key holding 'text'
\*   other:      no 'chunk'/'bytes', or a chunk with neither key
\*   bad:        reading or decoding the event raises
StopReasons == {"", "stop", "length"}
GenerationEvents ==
    {[kind |-> "generation", text |-> t, stop |-> s] : t \in Texts, s \in StopReasons}
DeltaEvents == {[kind |-> "delta", text |-> t, stop |-> ""] : t \in Texts}
OtherEvent == [kind |-> "other", text |-> <<>>, stop |-> ""]
BadEvent == [kind |-> "bad", text |-> <<>>, stop |-> ""]

\* The events each model family's backend sends.
EventsOf(model) ==
    IF model = "llama" THEN GenerationEvents \cup {BadEvent}
    ELSE IF model = "nova" THEN DeltaEvents \cup {OtherEvent, BadEvent}
    ELSE {}

SeqsUpTo(S, n) == UNION {[1..k -> S] : k \in 0..n}

\* ChatCompletionStreamResponse with its single choice, and the sentinel line.
Chunk(id, created, role, content, finish) ==
    [kind |-> "chunk", id |-> id, created |-> created, role |-> role,
     content |-> content, finish |-> finish]
Sentinel ==
    [kind |-> "done", id |-> 0, created |-> 0, role |-> Null,
     content |-> None, finish |-> Null]

\* ------------------------------------------------- stream_chat_completion
\* openai.py:124-137: the content fragment of a decoded event.
EventContent_GenerationOnly(e) ==
    IF e.kind = "generation" THEN e.text ELSE <<>>

EventContent(e) ==
    IF e.kind = "generation" THEN e.text
    ELSE IF e.kind = "delta" THEN e.text
    ELSE <<>>

\* openai.py:125-131: finish_reason is set only in the 'generation' branch.
EventFinishReason(e) ==
    IF e.kind = "generation" /\ e.stop # "" THEN "stop" ELSE Null

\* openai.py:176-193: the handler up to its first yield.
ErrorChunk_Stop(delay) == Chunk(uuids + 1, delay, Null, None, "stop")

ErrorChunk(delay) == Chunk(uuids + 1, delay, Null, None, "error")

CatchException ==
    \E d \in 0..MaxDelay :
        /\ out' = Append(out, ErrorChunk(d))
        /\ uuids' = uuids + 1
        /\ raisedAt' = Len(out)
        /\ pc' = "errchunk"

\* openai.py:63-112: from the first resumption to the first yield.
\* openai.py:63-112 with the invocation repeated once when it raises.
StartStream_RetryOnce ==
    /\ pc = "start"
    /\ IF request.model \notin model_mapping
       THEN /\ CatchException
            /\ UNCHANGED <<completion_id, invocations, body>>
       ELSE IF ~invokeOk
       THEN /\ invocations' = invocations + 2
            /\ CatchException
            /\ UNCHANGED <<completion_id, body>>
       ELSE /\ invocations' = invocations + 1
            /\ body' = "open"
            /\ completion_id' = uuids + 1
            /\ uuids' = uuids + 1
            /\ out' = Append(out, Chunk(uuids + 1, 0, "assistant", None, Null))
            /\ pc' = "role"
            /\ UNCHANGED raisedAt
    /\ UNCHANGED <<request, invokeOk, events, pos, response>>
    /\ UNCHANGED nonStreamVars

\* create_llm raises for an unknown alias before the backend is invoked
\* (65); the single invocation (86-91) raises or returns the event stream.
StartStream ==
    /\ pc = "start"
    /\ IF request.model \notin model_mapping
       THEN /\ CatchException
            /\ UNCHANGED <<completion_id, invocations, body>>
       ELSE IF ~invokeOk
       THEN /\ invocations' = invocations + 1
            /\ CatchException
            /\ UNCHANGED <<completion_id, body>>
       ELSE /\ invocations' = invocations + 1
            /\ body' = "open"
            /\ completion_id' = uuids + 1
            /\ uuids' = uuids + 1
            /\ out' = Append(out, Chunk(uuids + 1, 0, "assistant", None, Null))
            /\ pc' = "role"
            /\ UNCHANGED raisedAt
    /\ UNCHANGED <<request, invokeOk, events, pos, response>>
    /\ UNCHANGED nonStreamVars

\* openai.py:115-172: one iteration of the for-loop, up to its first yield or
\* to the end of the iteration.
ReadEvent ==
    /\ pc \in {"role", "loop"}
    /\ pos < Len(events)
    /\ pos' = pos + 1
    /\ LET e == events[pos + 1] IN
        IF e.kind = "bad"
        THEN CatchException
        ELSE /\ IF EventContent(e) # <<>>
                THEN /\ out' = Append(out, Chunk(completion_id, 0, Null,
                                                 Some(EventContent(e)), Null))
                     /\ pc' = "content"
                ELSE IF EventFinishReason(e) # Null
                THEN /\ out' = Append(out, Chunk(completion_id, 0, Null, None,
                                                 EventFinishReason(e)))
                     /\ pc' = "final"
                ELSE /\ out' = out
                     /\ pc' = "loop"
             /\ UNCHANGED <<uuids, raisedAt>>
    /\ UNCHANGED <<request, invokeOk, events, completion_id, response>>
    /\ UNCHANGED nonStreamVars
    /\ UNCHANGED backendVars

\* openai.py:155-172: resumed after the content chunk of event `pos`.
AfterContent ==
    /\ pc = "content"
    /\ LET e == events[pos] IN
        IF EventFinishReason(e) # Null
        THEN /\ out' = Append(out, Chunk(completion_id, 0, Null, None,
                                         EventFinishReason(e)))
             /\ pc' = "final"
        ELSE /\ out' = out
             /\ pc' = "loop"
    /\ UNCHANGED <<request, invokeOk, events, pos, completion_id, uuids,
                   raisedAt, response>>
    /\ UNCHANGED nonStreamVars
    /\ UNCHANGED backendVars

\* openai.py:172-174: resumed after the final chunk: break, then the sentinel.
AfterFinal ==
    /\ pc = "final"
    /\ out' = Append(out, Sentinel)
    /\ pc' = "sentinel"
    /\ UNCHANGED <<request, invokeOk, events, pos, completion_id, uuids,
                   raisedAt, response>>
    /\ UNCHANGED nonStreamVars
    /\ UNCHANGED backendVars

\* openai.py:115,174: the event stream is exhausted: the sentinel.
EndOfEvents ==
    /\ pc \in {"role", "loop"}
    /\ pos = Len(events)
    /\ out' = Append(out, Sentinel)
    /\ pc' = "sentinel"
    /\ UNCHANGED <<request, invokeOk, events, pos, completion_id, uuids,
                   raisedAt, response>>
    /\ UNCHANGED nonStreamVars
    /\ UNCHANGED backendVars

\* openai.py:193-194: resumed after the error chunk: the sentinel.
AfterErrorChunk_NoSentinel ==
    /\ pc = "errchunk"
    /\ out' = out
    /\ pc' = "errdone"
    /\ UNCHANGED <<request, invokeOk, events, pos, completion_id, uuids,
                   raisedAt, response>>
    /\ UNCHANGED nonStreamVars
    /\ UNCHANGED backendVars

AfterErrorChunk ==
    /\ pc = "errchunk"
    /\ out' = Append(out, Sentinel)
    /\ pc' = "errdone"
    /\ UNCHANGED <<request, invokeOk, events, pos, completion_id, uuids,
                   raisedAt, response>>
    /\ UNCHANGED nonStreamVars
    /\ UNCHANGED backendVars

\* openai.py:46-54: the StreamingResponse resumes the generator after the
\* sentinel and the generator returns.
CloseStream ==
    /\ request.stream
    /\ pc \in {"sentinel", "errdone"}
    /\ pc' = "closed"
    /\ UNCHANGED <<request, invokeOk, events, pos, out, completion_id, uuids,
                   raisedAt, response>>
    /\ UNCHANGED nonStreamVars
    /\ UNCHANGED backendVars

\* The client disconnects while the StreamingResponse holds the generator
\* suspended at a yield and the generator is closed: GeneratorExit (like
\* CancelledError) is raised at the yield, is no Exception, so passes the
\* handler of 176, and the generator ends; none of 63-194 closes the body.
YieldPoints == {"role", "content", "final", "errchunk", "sentinel", "errdone"}
Disconnect ==
    /\ request.stream
    /\ pc \in YieldPoints
    /\ pc' = "disconnected"
    /\ UNCHANGED <<request, invokeOk, events, pos, out, completion_id, uuids,
                   raisedAt, response>>
    /\ UNCHANGED nonStreamVars
    /\ UNCHANGED backendVars

\* The generator has ended and its frame no longer refers to the event
\* stream: the garbage collector may finalize the stream, at a time of its
\* choosing.
ReleaseBody ==
    /\ pc \in {"disconnected", "closed", "collected"}
    /\ body = "open"
    /\ body' = "released"
    /\ UNCHANGED invocations
    /\ UNCHANGED <<request, invokeOk, events, pos, pc, out, completion_id, uuids,
                   raisedAt, response>>
    /\ UNCHANGED nonStreamVars

\* ------------------------------------------------------- core/utils.py
\* str.find: the first index of a token, 0 when absent.
RECURSIVE FindFrom(_, _, _)
FindFrom(text, tok, i) ==
    IF i > Len(text) THEN 0
    ELSE IF text[i] = tok THEN i
    ELSE FindFrom(text, tok, i + 1)
Find(text, tok) == FindFrom(text, tok, 1)

\* str.rstrip / str.lstrip / str.strip over whitespace tokens.
RECURSIVE RStrip(_)
RStrip(text) ==
    IF text = <<>> THEN <<>>
    ELSE IF text[Len(text)] \in Whitespace THEN RStrip(SubSeq(text, 1, Len(text) - 1))
    ELSE text
RECURSIVE LStrip(_)
LStrip(text) ==
    IF text = <<>> THEN <<>>
    ELSE IF text[1] \in Whitespace THEN LStrip(Tail(text))
    ELSE text
Strip(text) == RStrip(LStrip(text))

\* "[1]" is the JSON text of a list: a JSON document that is no object.
\* "{ob", "TOOL_ST" and "TOOL_E" are proper prefixes of the object text, of
\* the start marker and of the end marker.
ListText == "[1]"
PartObjText == "{ob"
PartStart == "TOOL_ST"
PartEnd == "TOOL_E"

\* json.loads that decodes the first document and ignores what follows it.
JsonLoads_IgnoreExtraData(text) ==
    IF text # <<>> /\ text[1] = ObjText
    THEN [kind |-> "dict", name |-> "server.get_status", arguments |-> "{}"]
    ELSE IF text # <<>> /\ text[1] = ListText
    THEN [kind |-> "list", name |-> "", arguments |-> ""]
    ELSE [kind |-> "JSONDecodeError", name |-> "", arguments |-> ""]
\* json.loads on a token text: only a text that is exactly one JSON document
\* decodes, to a dict or to another value; anything else (the empty text,
\* a truncated document, a document followed by extra data) raises
\* JSONDecodeError.
JsonLoads(text) ==
    IF text = <<ObjText>>
    THEN [kind |-> "dict", name |-> "server.get_status", arguments |-> "{}"]
    ELSE IF text = <<ListText>>
    THEN [kind |-> "list", name |-> "", arguments |-> ""]
    ELSE [kind |-> "JSONDecodeError", name |-> "", arguments |-> ""]

NoCall == [kind |-> "none", name |-> "", arguments |-> ""]
\* An exception that leaves parse_tool_call.
ParseRaised == [kind |-> "raised", name |-> "AttributeError", arguments |-> ""]

\* utils.py:13-42 parse_tool_call.
parse_tool_call(text) ==
    LET start_idx == Find(text, "TOOL_START") IN
    IF start_idx = 0 THEN NoCall
    ELSE LET json_content == Strip(SubSeq(text, start_idx + 1, Len(text)))
             tool_call == JsonLoads(json_content)
         IN  IF tool_call.kind = "dict"
             THEN [kind |-> "call", name |-> tool_call.name,
                   arguments |-> tool_call.arguments]
             ELSE IF tool_call.kind = "JSONDecodeError" THEN NoCall
             \* utils.py:36,40: a decoded value without .get raises
             \* AttributeError, which the except clause does not name.
             ELSE ParseRaised

\* The texts parse_tool_call is applied to in isolation.
ParseTokens ==
    {"TOOL_START", "TOOL_END", "\n", ObjText, ListText, PartObjText, PartStart,
     PartEnd, "Hel"}
NotParsed == [kind |-> "pending", name |-> "", arguments |-> ""]

\* utils.py:13-42: one call of parse_tool_call.
ParseToolCall ==
    /\ parseResult = NotParsed
    /\ parseResult' = parse_tool_call(parseInput)
    /\ UNCHANGED parseInput
    /\ UNCHANGED nonParseVars

ParseNext == ParseToolCall

\* utils.py:84-86 estimate_tokens, on the number of characters of a text,
\* and len(text) for the texts of this model.
estimate_tokens(length) == IF length \div 4 >= 1 THEN length \div 4 ELSE 1
RECURSIVE CharLen(_)
CharLen(text) ==
    IF text = <<>> THEN 0
    ELSE CharLen(Tail(text))
         + (CASE Head(text) = "Hel" -> 3
              [] Head(text) = "lo" -> 2
              [] Head(text) = "\n" -> 1
              [] Head(text) = "TOOL_START" -> 10
              [] Head(text) = ObjText -> 46
              [] OTHER -> 1)

\* --------------------------------------------- collect_streaming_response
\* openai.py:201-232: the fold of the async-for loop over the yielded items;
\* it breaks at the sentinel.
RECURSIVE CollectFrom(_, _, _)
CollectFrom(items, i, acc) ==
    IF i > Len(items) THEN acc
    ELSE LET it == items[i] IN
         IF it.kind = "done" THEN acc
         ELSE CollectFrom(items, i + 1,
                [completion_id |-> IF acc.completion_id = 0 THEN it.id
                                   ELSE acc.completion_id,
                 created |-> IF acc.completion_id = 0 THEN it.created
                             ELSE acc.created,
                 content_parts |-> IF it.content # None /\ it.content[1] # <<>>
                                   THEN acc.content_parts \o it.content[1]
                                   ELSE acc.content_parts,
                 finish_reason |-> IF it.finish # Null THEN it.finish
                                   ELSE acc.finish_reason])

CollectStart ==
    [completion_id |-> 0, created |-> 0, content_parts |-> <<>>,
     finish_reason |-> "stop"]

\* A response that draws a fresh id whatever the chunks carried.
BuildResponse_FreshId(acc) ==
    [kind |-> "response", id |-> uuids + 1, created |-> acc.created,
     content |-> acc.content_parts, finish_reason |-> acc.finish_reason,
     tool_calls |-> None,
     prompt_tokens |-> 0, completion_tokens |-> 0, total_tokens |-> 0]
\* openai.py:234-255: the ChatCompletionResponse built from the fold.
BuildResponse(acc) ==
    [kind |-> "response",
     id |-> IF acc.completion_id # 0 THEN acc.completion_id ELSE uuids + 1,
     created |-> acc.created,
     content |-> acc.content_parts,
     finish_reason |-> acc.finish_reason,
     tool_calls |-> None,
     prompt_tokens |-> 0, completion_tokens |-> 0, total_tokens |-> 0]

\* openai.py:55-57,197-255: the non-streaming path consumes the generator up
\* to the sentinel and returns the folded response.
CollectStreamingResponse ==
    /\ ~request.stream
    /\ pc \in {"sentinel", "errdone"}
    /\ response = NoResponse
    /\ LET acc == CollectFrom(out, 1, CollectStart) IN
        /\ response' = BuildResponse(acc)
        /\ uuids' = IF acc.completion_id # 0 THEN uuids ELSE uuids + 1
    /\ pc' = "collected"
    /\ UNCHANGED <<request, invokeOk, events, pos, out, completion_id, raisedAt>>
    /\ UNCHANGED nonStreamVars
    /\ UNCHANGED backendVars

StreamNext ==
    \/ StartStream
    \/ ReadEvent
    \/ AfterContent
    \/ AfterFinal
    \/ EndOfEvents
    \/ AfterErrorChunk
    \/ CloseStream
    \/ Disconnect
    \/ ReleaseBody
    \/ CollectStreamingResponse

\* ------------------------------------------------------ services/policy.py
Services == {"databricks", "snowflake"}

\* DatabricksPolicy and SnowflakePolicy; list fields are sequences.
DatabricksPolicy(token, enabled, workspace_url, spaces) ==
    [token |-> token, enabled |-> enabled, workspace_url |-> workspace_url,
     spaces |-> spaces]
SnowflakePolicy(token, account, user, enabled, clusters, databases) ==
    [token |-> token, account |-> account, user |-> user, enabled |-> enabled,
     clusters |-> clusters, databases |-> databases]
\* OperationToolingPolicy: each sub-policy is Optional.
OperationToolingPolicy(databricks, snowflake) ==
    [databricks |-> databricks, snowflake |-> snowflake]

InList(x, list) == \E i \in 1..Len(list) : list[i] = x
Elements(list) == {list[i] : i \in 1..Len(list)}
\* The sub-policy of a service in a policy.
SubPolicy(policy, service) ==
    IF service = "databricks" THEN policy.databricks ELSE policy.snowflake

\* policy.py:33-35, 66-72
is_space_allowed(sub, space_id) == InList(space_id, sub.spaces)
is_cluster_allowed(sub, cluster_id) == InList(cluster_id, sub.clusters)
is_database_allowed(sub, database) == InList(database, sub.databases)

\* A listing of the services that are configured, enabled or not.
get_enabled_services_Configured(policy) ==
    (IF policy.databricks # None THEN <<"databricks">> ELSE <<>>)
    \o (IF policy.snowflake # None THEN <<"snowflake">> ELSE <<>>)
\* policy.py:83-90: a sub-policy object is truthy whenever it is present.
get_enabled_services(policy) ==
    (IF policy.databricks # None /\ policy.databricks[1].enabled
     THEN <<"databricks">> ELSE <<>>)
    \o (IF policy.snowflake # None /\ policy.snowflake[1].enabled
        THEN <<"snowflake">> ELSE <<>>)

\* policy.py:92-98
is_service_enabled(policy, service) ==
    IF service = "databricks"
    THEN policy.databricks # None /\ policy.databricks[1].enabled
    ELSE IF service = "snowflake"
    THEN policy.snowflake # None /\ policy.snowflake[1].enabled
    ELSE FALSE

\* policy.py:100-102: the operation and its arguments are not looked at.
validate_operation(policy, service, operation, kwargs) ==
    is_service_enabled(policy, service)

\* policy.py:104-110: Optional[str].
get_service_token(policy, service) ==
    IF service = "databricks" /\ policy.databricks # None
    THEN Some(policy.databricks[1].token)
    ELSE IF service = "snowflake" /\ policy.snowflake # None
    THEN Some(policy.snowflake[1].token)
    ELSE None

\* policy.py:26-31, 59-63: the model validators every constructed sub-policy
\* has passed.
\* A validator that accepts every sub-policy.
validate_token_when_enabled_Skipped(sub) == TRUE
validate_token_when_enabled(sub) == ~(sub.enabled /\ sub.token = "")

\* Policies queried in isolation: every combination of presence, enablement
\* and empty / one-element allowlists that passes the validators.
Allowlists == {<<>>, <<"A">>}
DatabricksPolicies ==
    {p \in {DatabricksPolicy(t, e, None, sp) :
                t \in {"", "tok"}, e \in BOOLEAN, sp \in Allowlists} :
        validate_token_when_enabled(p)}
SnowflakePolicies ==
    {p \in {SnowflakePolicy(t, "acct", "user", e, cl, db) :
                t \in {"", "tok"}, e \in BOOLEAN, cl \in Allowlists, db \in Allowlists} :
        validate_token_when_enabled(p)}
Optional(S) == {None} \cup {Some(x) : x \in S}
Policies ==
    {OperationToolingPolicy(d, sf) :
        d \in Optional(DatabricksPolicies), sf \in Optional(SnowflakePolicies)}

\* Keyword arguments are functions from argument names to values.
NoArgs == <<>>
\* Queries made of a policy: an operation of a service, naming the resource
\* it acts on (a space, a cluster or a database) or none.
PolicyQueries ==
    {[service |-> "databricks", operation |-> "start_conversation",
      kwargs |-> ("space_id" :> r)] : r \in {"A", "B"}}
    \cup {[service |-> "databricks", operation |-> "list_spaces", kwargs |-> NoArgs]}
    \cup {[service |-> "snowflake", operation |-> "execute_sql",
           kwargs |-> (k :> r)] : k \in {"cluster", "database"}, r \in {"A", "B"}}
    \cup {[service |-> "snowflake", operation |-> "get_snowflake_status",
           kwargs |-> NoArgs]}
    \cup {[service |-> "other", operation |-> "anything", kwargs |-> NoArgs]}

NoQuery == [service |-> "", operation |-> "", kwargs |-> NoArgs]
NotAsked == [asked |-> FALSE, service |-> "", token |-> None]

\* One call of validate_operation on the policy under test.
ValidateOperation ==
    /\ \E q \in PolicyQueries :
        /\ polCall' = q
        /\ polResult' = validate_operation(polPolicy, q.service, q.operation, q.kwargs)
    /\ UNCHANGED <<polPolicy, polToken>>
    /\ UNCHANGED nonPolicyVars

\* One call of get_service_token on the policy under test.
GetServiceToken ==
    /\ \E service \in Services \cup {"other"} :
        polToken' = [asked |-> TRUE, service |-> service,
                     token |-> get_service_token(polPolicy, service)]
    /\ UNCHANGED <<polPolicy, polCall, polResult>>
    /\ UNCHANGED nonPolicyVars

PolicyNext == ValidateOperation \/ GetServiceToken

\* ------------------------------------------- dependencies/policies.py
\* The module imports the policy classes from tools.policy; the classes are
\* those of services/policy.py above.
\* An enablement header value is a sequence of ';'-separated pairs as written:
\* [key, eq, value], eq telling whether the pair holds an '='.
Pair(k, v) == [key |-> k, eq |-> TRUE, value |-> v]
JunkPair == [key |-> "junk", eq |-> FALSE, value |-> ""]

\* str.lower and str.strip on the keys and values that occur in headers.
Lower(str) ==
    CASE str = "Token" -> "token"
      [] str = "Enabled" -> "enabled"
      [] str = "ENABLED" -> "enabled"
      [] str = "Account" -> "account"
      [] str = "User" -> "user"
      [] str = "Workspace_Url" -> "workspace_url"
      [] str = "Extra" -> "extra"
      [] str = "OFF" -> "off"
      [] str = "Yes" -> "yes"
      [] str = "False" -> "false"
      [] str = "NO" -> "no"
      [] str = "TRUE" -> "true"
      [] str = "On" -> "on"
      [] str = "X" -> "x"
      [] str = "Y" -> "y"
      [] OTHER -> str
StripStr(str) ==
    CASE str = " " -> ""
      [] str = " Y " -> "Y"
      [] str = " Token" -> "Token"
      [] str = " enabled " -> "enabled"
      [] OTHER -> str

\* policies.py:22-45 parse_auth_header: the dict of the pairs, keys trimmed
\* and lowercased, values trimmed, a later pair replacing an earlier one.
RECURSIVE parse_auth_header(_)
parse_auth_header(header_value) ==
    IF header_value = <<>> THEN <<>>
    ELSE LET n == Len(header_value)
             pair == header_value[n]
             result == parse_auth_header(SubSeq(header_value, 1, n - 1))
         IN  IF ~pair.eq THEN result
             ELSE (Lower(StripStr(pair.key)) :> StripStr(pair.value)) @@ result

\* dict.get(key, default)
Get(dict, key, default) == IF key \in DOMAIN dict THEN dict[key] ELSE default

\* A resource header line is a sequence of tokens: names, "," and " ".
\* str.split(','), str.strip and the name a trimmed part spells (the lines of
\* this model hold at most one name token between commas).
RECURSIVE SplitComma(_)
SplitComma(line) ==
    LET i == Find(line, ",") IN
    IF i = 0 THEN <<line>>
    ELSE <<SubSeq(line, 1, i - 1)>> \o SplitComma(SubSeq(line, i + 1, Len(line)))
RECURSIVE StripSpaces(_)
StripSpaces(part) ==
    IF part = <<>> THEN <<>>
    ELSE IF part[1] = " " THEN StripSpaces(Tail(part))
    ELSE IF part[Len(part)] = " " THEN StripSpaces(SubSeq(part, 1, Len(part) - 1))
    ELSE part
NameOf(part) == IF StripSpaces(part) = <<>> THEN "" ELSE StripSpaces(part)[1]
IsNonEmptyName(name) == name # ""

\* policies.py:48-70 get_resource_headers over the lines of one header name.
RECURSIVE get_resource_headers(_)
get_resource_headers(lines) ==
    IF lines = <<>> THEN <<>>
    ELSE LET value == lines[Len(lines)]
             before == get_resource_headers(SubSeq(lines, 1, Len(lines) - 1))
             parts == SplitComma(value)
         IN  IF Find(value, ",") # 0
             THEN before \o SelectSeq([i \in 1..Len(parts) |-> NameOf(parts[i])],
                                      IsNonEmptyName)
             ELSE Append(before, NameOf(value))

\* policies.py:94,133: enabled defaults to true exactly when a token is given.
Truthy == {"true", "1", "yes", "on"}
\* The same test without str.lower on the value.
ResolveEnabled_CaseSensitive(auth_info, token) ==
    Get(auth_info, "enabled", IF token # "" THEN "true" ELSE "false") \in Truthy
ResolveEnabled_DefaultFalse(auth_info, token) ==
    Lower(Get(auth_info, "enabled", "false")) \in Truthy
ResolveEnabled(auth_info, token) ==
    Lower(Get(auth_info, "enabled", IF token # "" THEN "true" ELSE "false")) \in Truthy

\* What building a policy, or a part of one, gives: the value, or the
\* exception raised.
Built(value) == [kind |-> "ok", value |-> value, status |-> 200, names |-> {}]
ValidationError ==
    [kind |-> "ValidationError", value |-> None, status |-> 0, names |-> {"token"}]
HTTPException(status_code, names) ==
    [kind |-> "HTTPException", value |-> None, status |-> status_code, names |-> names]
NotBuilt == [kind |-> "pending", value |-> None, status |-> 0, names |-> {}]

\* policy.py:20-31 / 53-64: the validators run when a sub-policy is built.
Validated(sub) == IF validate_token_when_enabled(sub) THEN Built(Some(sub)) ELSE ValidationError

\* create_databricks_policy_from_headers without the early return of lines
\* 85-86: a missing header is parsed like an empty one.
create_databricks_policy_from_headers_NoEarlyReturn(h) ==
    LET auth_info == parse_auth_header(IF h.databricks = None THEN <<>>
                                       ELSE h.databricks[1])
        token == Get(auth_info, "token", "")
        workspace_url == Get(auth_info, "workspace_url", Get(auth_info, "workspace", ""))
    IN  Validated(DatabricksPolicy(StripStr(token), ResolveEnabled(auth_info, token),
            IF workspace_url = "" THEN None ELSE Some(workspace_url),
            get_resource_headers(h.spaces)))
\* policies.py:73-105 create_databricks_policy_from_headers
create_databricks_policy_from_headers(h) ==
    IF h.databricks = None \/ h.databricks = Some(<<>>) THEN Built(None)
    ELSE LET auth_info == parse_auth_header(h.databricks[1])
             token == Get(auth_info, "token", "")
             enabled == ResolveEnabled(auth_info, token)
             workspace_url == Get(auth_info, "workspace_url", Get(auth_info, "workspace", ""))
             spaces == get_resource_headers(h.spaces)
         IN  Validated(DatabricksPolicy(StripStr(token), enabled,
                 IF workspace_url = "" THEN None ELSE Some(workspace_url), spaces))

\* create_snowflake_policy_from_headers without the check of lines 139-144.
create_snowflake_policy_from_headers_NoAccountCheck(h) ==
    IF h.snowflake = None \/ h.snowflake = Some(<<>>) THEN Built(None)
    ELSE LET auth_info == parse_auth_header(h.snowflake[1])
             token == Get(auth_info, "token", "")
         IN  Validated(SnowflakePolicy(StripStr(token), Get(auth_info, "account", ""),
                 Get(auth_info, "user", ""), ResolveEnabled(auth_info, token),
                 get_resource_headers(h.clusters), get_resource_headers(h.databases)))
\* policies.py:108-153 create_snowflake_policy_from_headers
create_snowflake_policy_from_headers(h) ==
    IF h.snowflake = None \/ h.snowflake = Some(<<>>) THEN Built(None)
    ELSE LET auth_info == parse_auth_header(h.snowflake[1])
             token == Get(auth_info, "token", "")
             account == Get(auth_info, "account", "")
             user == Get(auth_info, "user", "")
             enabled == ResolveEnabled(auth_info, token)
             clusters == get_resource_headers(h.clusters)
             databases == get_resource_headers(h.databases)
         IN  IF enabled /\ (account = "" \/ user = "")
             THEN HTTPException(400, {"account", "user"})
             ELSE Validated(SnowflakePolicy(StripStr(token), account, user, enabled,
                                            clusters, databases))

\* policies.py:156-199 create_policy_from_headers: the sub-policies are built
\* in order; a ValidationError (a ValueError) and any other exception, the
\* HTTPException of the Snowflake check included, become an HTTPException 400.
create_policy_from_headers(h) ==
    LET databricks_policy == create_databricks_policy_from_headers(h)
        snowflake_policy == create_snowflake_policy_from_headers(h)
    IN  IF databricks_policy.kind # "ok"
        THEN HTTPException(400, databricks_policy.names)
        ELSE IF snowflake_policy.kind # "ok"
        THEN HTTPException(400, snowflake_policy.names)
        ELSE Built(OperationToolingPolicy(databricks_policy.value,
                                          snowflake_policy.value))

\* The header sets explored: one service's enablement header ranges over
\* every sequence of at most MaxPairs pairs while the other takes a few
\* representative values, the resource headers range over a few lines, and
\* a token is followed by an Enabled pair in each spelling of key and value.
DatabricksPairs ==
    {Pair("Token", "X"), Pair("token", " Y "), Pair(" Token", " "),
     Pair("Enabled", "true"), Pair("ENABLED", "OFF"), Pair("Enabled", "Yes"),
     Pair("Workspace_Url", "url"), JunkPair}
SnowflakePairs ==
    {Pair("Token", "X"), Pair("token", " Y "), Pair(" Token", " "),
     Pair("Enabled", "true"), Pair("ENABLED", "OFF"),
     Pair("Account", "acct"), Pair("Account", " "),
     Pair("User", "usr"), Pair("User", " "), Pair("Extra", "X")}
FewDatabricks ==
    {None, Some(<<Pair("Token", "X")>>), Some(<<Pair("Enabled", "true")>>)}
FewSnowflake ==
    {None, Some(<<Pair("Token", "X"), Pair("Account", "acct"), Pair("User", "usr")>>),
     Some(<<Pair("Token", "X")>>), Some(<<Pair("Token", "X"), Pair("ENABLED", "OFF")>>)}
EnabledKeys == {"Enabled", "ENABLED", " enabled "}
EnabledSpellings ==
    {"false", "0", "no", "off", "False", "NO", "OFF",
     "true", "1", "yes", "on", "TRUE", "Yes", "On"}
EnabledPairs == {Pair(k, v) : k \in EnabledKeys, v \in EnabledSpellings}
SpelledDatabricks == {Some(<<Pair("Token", "X"), e>>) : e \in EnabledPairs}
SpelledSnowflake ==
    {Some(<<Pair("Token", "X"), Pair("Account", "acct"), Pair("User", "usr"), e>>) :
        e \in EnabledPairs}
    \cup {Some(<<Pair("Token", "X"), e>>) : e \in EnabledPairs}
ResourceLines ==
    {<<>>, <<<<"A">>>>, <<<<" ", "A", ",", "B", ",", " ">>, <<" ">>>>}
HeaderSets(n) ==
    {[databricks |-> d, snowflake |-> sf, spaces |-> <<>>, clusters |-> <<>>,
      databases |-> <<>>] :
        d \in Optional(SeqsUpTo(DatabricksPairs, n)), sf \in FewSnowflake}
    \cup {[databricks |-> d, snowflake |-> sf, spaces |-> <<>>, clusters |-> <<>>,
           databases |-> <<>>] :
        d \in FewDatabricks, sf \in Optional(SeqsUpTo(SnowflakePairs, n))}
    \cup {[databricks |-> d, snowflake |-> sf, spaces |-> sp, clusters |-> cl,
           databases |-> db] :
        d \in FewDatabricks, sf \in FewSnowflake, sp \in ResourceLines,
        cl \in ResourceLines, db \in ResourceLines}
    \cup {[databricks |-> d, snowflake |-> sf, spaces |-> <<>>, clusters |-> <<>>,
           databases |-> <<>>] : d \in SpelledDatabricks, sf \in FewSnowflake}
    \cup {[databricks |-> d, snowflake |-> sf, spaces |-> <<>>, clusters |-> <<>>,
           databases |-> <<>>] : d \in FewDatabricks, sf \in SpelledSnowflake}

\* policies.py:202-212 policy_dependency: the request's policy is built.
CreatePolicyFromHeaders ==
    /\ built = NotBuilt
    /\ built' = create_policy_from_headers(headers)
    /\ UNCHANGED headers
    /\ UNCHANGED nonHeaderVars

HeaderNext == CreatePolicyFromHeaders

\* ------------------------------------------------------- core/llm.py
\* The adapters are applied to the messages, the numeric fields, the tools
\* and the stop value of a request, and to a backend response.
\* `stop` is Optional[Union[str, List[str]]]: absent, one string, or a list.
StopNone == [kind |-> "none", seqs |-> <<>>]
StopStr(str) == [kind |-> "str", seqs |-> <<str>>]
StopList(list) == [kind |-> "list", seqs |-> list]
\* Python truth of a stop value (llm.py:56,182 `if stop:`).
StopTruthy(stop) ==
    IF stop.kind = "str" THEN stop.seqs[1] # ""
    ELSE stop.kind = "list" /\ stop.seqs # <<>>
\* Python truth of `tools`: Optional[List[Tool]] (llm.py:39,53,151,179).
ToolsTruthy(tools) == tools # None /\ tools[1] # <<>>

\* llm.py:56-60, 182-186: the caller's stop value joins the list.
ExtendStop(stop_sequences, stop) ==
    IF StopTruthy(stop) THEN stop_sequences \o stop.seqs ELSE stop_sequences

\* A ChatMessage, and a message or prompt segment of a payload.  The text
\* _build_system_prompt(tools) returns is "SYSTEM_PROMPT".
ChatMessage(role, content) == [role |-> role, content |-> content]
SystemPromptText == "SYSTEM_PROMPT"
FilterSeq(seq, Keep(_)) == SelectSeq(seq, Keep)

\* llm.py:81-101 _format_llama_prompt: the prompt as its segments, ending
\* with the assistant header.
format_llama_prompt(messages, system_prompt) ==
    LET Kept(message) ==
            \/ message.role = "system" /\ ~system_prompt
            \/ message.role \in {"user", "assistant"}
    IN  (IF system_prompt THEN <<ChatMessage("system", SystemPromptText)>> ELSE <<>>)
        \o FilterSeq(messages, Kept)
        \o <<ChatMessage("assistant", "")>>

\* llm.py:33-65 LlamaLLM.format_messages: the payload; the key
\* stop_sequences is set only for a non-empty list.
LlamaLLM_format_messages(messages, max_tokens, temperature, top_p, stop, tools) ==
    LET stop_sequences ==
            ExtendStop(IF ToolsTruthy(tools) THEN <<"TOOL_END">> ELSE <<>>, stop)
    IN  [shape |-> "prompt", system_prompt |-> ToolsTruthy(tools),
         messages |-> format_llama_prompt(messages, ToolsTruthy(tools)),
         max_tokens |-> max_tokens, temperature |-> temperature, top_p |-> top_p,
         stop_sequences |-> IF stop_sequences # <<>> THEN Some(stop_sequences)
                            ELSE None]

\* llm.py:148-166: the messages of Nova's payload.
formatted_messages(messages, tools) ==
    LET Kept(msg) == ~(msg.role = "system" /\ ToolsTruthy(tools))
    IN  (IF ToolsTruthy(tools) THEN <<ChatMessage("system", SystemPromptText)>>
         ELSE <<>>)
        \o FilterSeq(messages, Kept)

\* NovaLLM.format_messages without lines 179-180.
NovaLLM_format_messages_NoToolEnd(messages, max_tokens, temperature, top_p, stop, tools) ==
    [shape |-> "messages", system_prompt |-> ToolsTruthy(tools),
     messages |-> formatted_messages(messages, tools),
     max_tokens |-> max_tokens, temperature |-> temperature, top_p |-> top_p,
     stop_sequences |-> IF ExtendStop(<<>>, stop) # <<>>
                        THEN Some(ExtendStop(<<>>, stop)) ELSE None]
\* llm.py:143-191 NovaLLM.format_messages: the key
\* inferenceConfig.stopSequences is set only for a non-empty list.
NovaLLM_format_messages(messages, max_tokens, temperature, top_p, stop, tools) ==
    LET stop_sequences ==
            ExtendStop(IF ToolsTruthy(tools) THEN <<"TOOL_END">> ELSE <<>>, stop)
    IN  [shape |-> "messages", system_prompt |-> ToolsTruthy(tools),
         messages |-> formatted_messages(messages, tools),
         max_tokens |-> max_tokens, temperature |-> temperature, top_p |-> top_p,
         stop_sequences |-> IF stop_sequences # <<>> THEN Some(stop_sequences)
                            ELSE None]

\* A numeric field of the request body: left out, or given as null, 0 or a
\* positive number.  temperature and top_p are counted in tenths.
Absent == [given |-> FALSE, value |-> None]
Given(value) == [given |-> TRUE, value |-> value]
\* models.py:21-23: the field of the validated ChatCompletionRequest.
FieldOf(json, default) == IF json.given THEN json.value ELSE Some(default)
RequestDefaults == [max_tokens |-> 1000, temperature |-> 7, top_p |-> 10]
\* Python's `x or default` on an Optional number (openai.py:68-70).
PyOr(x, default) == IF x = None \/ x[1] = 0 THEN default ELSE x[1]

\* A backend response as parse_response reads it: the generated text, the
\* stop reason and the two token counts, each Optional (key absent).  A stop
\* reason of Null is a JSON null.
BackendResponse(text, stop_reason, prompt_tokens, completion_tokens) ==
    [text |-> text, stop_reason |-> stop_reason, prompt_tokens |-> prompt_tokens,
     completion_tokens |-> completion_tokens]
OrDefault(opt, default) == IF opt = None THEN default ELSE opt[1]
Parsed4(text, finish_reason, prompt_tokens, completion_tokens) ==
    [text |-> text, finish_reason |-> finish_reason,
     prompt_tokens |-> prompt_tokens, completion_tokens |-> completion_tokens]

\* llm.py:67-79 LlamaLLM.parse_response
LlamaLLM_parse_response(resp) ==
    LET stop_reason == OrDefault(resp.stop_reason, "stop") IN
    Parsed4(OrDefault(resp.text, <<>>),
            IF stop_reason \in {"stop", "end_of_turn"} THEN "stop" ELSE "length",
            OrDefault(resp.prompt_tokens, 0),
            OrDefault(resp.completion_tokens, 0))

\* llm.py:193-212 NovaLLM.parse_response
NovaLLM_parse_response(resp) ==
    LET stop_reason == OrDefault(resp.stop_reason, "end_turn") IN
    Parsed4(OrDefault(resp.text, <<>>),
            IF stop_reason = "end_turn" THEN "stop"
            ELSE IF stop_reason = "max_tokens" THEN "length" ELSE "stop",
            OrDefault(resp.prompt_tokens, 0),
            OrDefault(resp.completion_tokens, 0))

\* The calls explored.  Tools are named by their function names.
ToolLists == {None, Some(<<>>), Some(<<"get_status">>),
              Some(<<"get_status", "list_spaces">>)}
StopStrings == {"", "END", "TOOL_END"}
StopValues(n) ==
    {StopNone} \cup {StopStr(str) : str \in StopStrings}
    \cup {StopList(list) : list \in SeqsUpTo(StopStrings, n)}
StopReasonsOf(model) ==
    IF model = "llama"
    THEN {"stop", "end_of_turn", "length", "content_filter", Null}
    ELSE {"end_turn", "max_tokens", "stop_sequence", "content_filtered", Null}
NoResponseGiven == BackendResponse(None, None, None, None)
BackendResponses(model) ==
    {BackendResponse(t, s, pt, ct) :
        t \in Optional({<<"Hel">>}), s \in Optional(StopReasonsOf(model)),
        pt \in Optional({0, 7}), ct \in Optional({0, 7})}
\* The conversations and the numeric fields a request may carry.
MessageLists ==
    {<<ChatMessage("user", "U1")>>,
     <<ChatMessage("system", "S1"), ChatMessage("user", "U1")>>,
     <<ChatMessage("user", "U1"), ChatMessage("assistant", "A1"),
       ChatMessage("user", "U2")>>}
NumberFields == {Absent, Given(None), Given(Some(0)), Given(Some(5))}
NoParams == [max_tokens |-> Absent, temperature |-> Absent, top_p |-> Absent]
ParamSets ==
    {[max_tokens |-> a, temperature |-> b, top_p |-> c] :
        a \in NumberFields, b \in NumberFields, c \in NumberFields}
\* Requests varying tools, stop and messages, and requests varying the
\* numeric fields.
FormatCalls(n) ==
    {[fn |-> "format_messages", model |-> m, messages |-> ms, params |-> NoParams,
      tools |-> t, stop |-> s, response |-> NoResponseGiven] :
        m \in model_mapping, ms \in MessageLists, t \in ToolLists,
        s \in StopValues(n)}
    \cup
    {[fn |-> "format_messages", model |-> m, messages |-> <<ChatMessage("user", "U1")>>,
      params |-> ps, tools |-> None, stop |-> StopNone,
      response |-> NoResponseGiven] :
        m \in model_mapping, ps \in ParamSets}
ParseCalls ==
    UNION {{[fn |-> "parse_response", model |-> m, messages |-> <<>>,
             params |-> NoParams, tools |-> None,
             stop |-> StopNone, response |-> r] : r \in BackendResponses(m)} :
           m \in model_mapping}
NoAdapterCall ==
    [fn |-> "", model |-> "", messages |-> <<>>, params |-> NoParams,
     tools |-> None, stop |-> StopNone, response |-> NoResponseGiven]
NotCalled == [kind |-> "pending"]

\* openai.py:65-80: create_llm(request.model).format_messages(...) with the
\* request's numeric fields resolved against their defaults.
FormatMessages ==
    /\ llmCall.fn = "format_messages"
    /\ llmResult = NotCalled
    /\ LET max_tokens ==
                PyOr(FieldOf(llmCall.params.max_tokens, RequestDefaults.max_tokens), 1000)
           temperature ==
                PyOr(FieldOf(llmCall.params.temperature, RequestDefaults.temperature), 7)
           top_p == PyOr(FieldOf(llmCall.params.top_p, RequestDefaults.top_p), 10)
       IN  llmResult' =
            [kind |-> "payload",
             payload |-> IF llmCall.model = "llama"
                         THEN LlamaLLM_format_messages(
                                llmCall.messages, max_tokens, temperature, top_p,
                                llmCall.stop, llmCall.tools)
                         ELSE NovaLLM_format_messages(
                                llmCall.messages, max_tokens, temperature, top_p,
                                llmCall.stop, llmCall.tools)]
    /\ UNCHANGED llmCall
    /\ UNCHANGED nonAdapterVars

\* llm.py:251-263 create_llm(model).parse_response(response)
ParseResponse ==
    /\ llmCall.fn = "parse_response"
    /\ llmResult = NotCalled
    /\ llmResult' = [kind |-> "parsed",
                     parsed |-> IF llmCall.model = "llama"
                                THEN LlamaLLM_parse_response(llmCall.response)
                                ELSE NovaLLM_parse_response(llmCall.response)]
    /\ UNCHANGED llmCall
    /\ UNCHANGED nonAdapterVars

AdapterNext ==
    \/ FormatMessages
    \/ ParseResponse

\* ------------------------------------- services manager and the toolbelt
\* Requests served concurrently by the event loop; a task runs until it
\* awaits something that suspends.
Requests == {"r1", "r2"}
TokenOf(r) == IF r = "r1" THEN "tok1" ELSE "tok2"
UrlOf(r) == IF r = "r1" THEN "url1" ELSE "url2"
AccountOf(r) == IF r = "r1" THEN "acct1" ELSE "acct2"
UserOf(r) == IF r = "r1" THEN "user1" ELSE "user2"

\* The policies a request's headers may build; credentials differ per tenant.
RequestPolicies(r) ==
    LET sf == SnowflakePolicy(TokenOf(r), AccountOf(r), UserOf(r), TRUE, <<>>, <<>>)
    IN  {OperationToolingPolicy(
             Some(DatabricksPolicy(TokenOf(r), TRUE, Some(UrlOf(r)), <<"A">>)), Some(sf)),
         OperationToolingPolicy(
             Some(DatabricksPolicy(TokenOf(r), TRUE, None, <<>>)), None),
         OperationToolingPolicy(
             Some(DatabricksPolicy(TokenOf(r), FALSE, None, <<>>)), Some(sf)),
         OperationToolingPolicy(None, None)}

\* local_manager.py:53-57 LocalServicesManager.__init__
LocalServicesManager(policy) ==
    [initialized |-> FALSE, databricks_available |-> FALSE,
     snowflake_available |-> FALSE, policy |-> policy]

\* local_manager.py:59-70 set_policy
set_policy(mgr, policy) ==
    IF mgr.initialized
    THEN [mgr EXCEPT !.policy = Some(policy),
                     !.databricks_available = is_service_enabled(policy, "databricks"),
                     !.snowflake_available = is_service_enabled(policy, "snowflake")]
    ELSE [mgr EXCEPT !.policy = Some(policy)]

\* The coroutine functions of the server modules the manager dispatches to,
\* with the parameters each accepts and those it requires.  The manager's code
\* is in the repository twice, services/local_manager.py and
\* tools/toolbelt.py:205-585; its relative imports `.databricks.server` and
\* `.snowflake.server` are taken from tools/databricks/server.py and
\* tools/snowflake/server.py.
ServerTools ==
    [databricks |-> {"get_databricks_status", "start_conversation", "list_spaces"},
     snowflake |-> {"get_snowflake_status", "execute_sql"}]
ToolParams(tool) ==
    IF tool = "get_databricks_status" THEN {"_auth_token", "_workspace_url"}
    ELSE IF tool = "start_conversation" THEN {"space_id", "content"}
    ELSE IF tool = "execute_sql" THEN {"sql", "parameters"}
    ELSE {}
ToolRequired(tool) ==
    IF tool = "start_conversation" THEN {"space_id", "content"}
    ELSE IF tool = "execute_sql" THEN {"sql"}
    ELSE {}
\* Python's argument binding of tool_func(**kwargs): TypeError unless it holds.
Binds(params, required, kwargs) ==
    /\ DOMAIN kwargs \subseteq params
    /\ required \subseteq DOMAIN kwargs

\* local_manager.py:213-223: the credentials written over kwargs.
InjectCredentials(policy, service, token, kwargs) ==
    IF service = "databricks"
    THEN IF policy.databricks # None
            /\ policy.databricks[1].workspace_url # None
            /\ policy.databricks[1].workspace_url # Some("")
         THEN ("_auth_token" :> token)
              @@ ("_workspace_url" :> policy.databricks[1].workspace_url[1])
              @@ kwargs
         ELSE ("_auth_token" :> token) @@ kwargs
    ELSE IF policy.snowflake # None
         THEN ("_auth_token" :> token)
              @@ ("_account" :> policy.snowflake[1].account)
              @@ ("_user" :> policy.snowflake[1].user)
              @@ kwargs
         ELSE ("_auth_token" :> token) @@ kwargs

\* How a dispatch ended: an exception propagated to the caller, an error
\* envelope {success: False, error: ...} was returned, or the implementation
\* was invoked with `passed`.
Raised(error) == [outcome |-> "raised", error |-> error, passed |-> NoArgs]
Envelope(error) == [outcome |-> "envelope", error |-> error, passed |-> NoArgs]
Invoked(kwargs) == [outcome |-> "invoked", error |-> "", passed |-> kwargs]

\* local_manager.py:150-260 call_service_tool, up to the await of the tool.
call_service_tool(mgr, service_name, tool_name, kwargs) ==
    IF mgr.policy = None THEN Raised("PolicyValidationError")
    ELSE LET policy == mgr.policy[1] IN
    IF ~validate_operation(policy, service_name, tool_name, kwargs)
    THEN Raised("UnauthorizedOperationError")
    ELSE IF service_name \notin {"databricks", "snowflake"}
    THEN Envelope("Unknown service")
    ELSE IF ~(IF service_name = "databricks" THEN mgr.databricks_available
              ELSE mgr.snowflake_available)
    THEN Envelope("service not available")
    ELSE LET token == get_service_token(policy, service_name) IN
    IF token = None \/ token = Some("")
    THEN Envelope("No authentication token available")
    ELSE LET injected == InjectCredentials(policy, service_name, token[1], kwargs) IN
    IF tool_name \notin ServerTools[service_name]
    THEN Envelope("Tool not found")
    ELSE IF ~Binds(ToolParams(tool_name), ToolRequired(tool_name), injected)
    THEN Envelope("TypeError")
    ELSE Invoked(injected)

\* Tool names are sequences of parts: "server.x" is <<"server", ".", "x">>.
\* toolbelt.py:19,59: the parameters of the toolbelt's two local functions.
ToolbeltParams(name) ==
    IF name = <<"get_databricks_status">> THEN {"_auth_token", "_workspace_url"}
    ELSE IF name = <<"get_snowflake_status">> THEN {"_auth_token", "_username", "_password"}
    ELSE {}

\* toolbelt.py:176-178
StripServerPrefix(tool_name) ==
    IF Len(tool_name) >= 2 /\ tool_name[1] = "server" /\ tool_name[2] = "."
    THEN SubSeq(tool_name, 3, Len(tool_name))
    ELSE tool_name

\* toolbelt.py:130: the local functions the toolbelt exposes.
RegisteredTools == {"get_databricks_status", "get_snowflake_status"}

\* toolbelt.py:176-187: the local function a tool name is mapped to, as a
\* one-part name; <<>> when the name maps to none.
ResolveTool(tool_name) ==
    LET name == StripServerPrefix(tool_name) IN
    IF Len(name) = 1 /\ name[1] \in RegisteredTools THEN name ELSE <<>>

\* toolbelt.py:124-172 available_tools: the names of the descriptors.
available_tools == {<<"server", ".", tname>> : tname \in RegisteredTools}

\* tools/__init__.py:75-104 get_builtin_toolset: the names of the
\* descriptors, one per @tool() function of tools/<svc>/server.py.
get_builtin_toolset ==
    UNION {{<<svc, ".", name>> : name \in ServerTools[svc]} : svc \in Services}

\* toolbelt.py:174-197 execute_tool: no policy is consulted.
execute_tool(tool_name, args) ==
    LET name == ResolveTool(tool_name) IN
    IF name = <<>>
    THEN Envelope("Unknown server tool")
    ELSE IF ~Binds(ToolbeltParams(name), {}, args)
    THEN Envelope("TypeError")
    ELSE Invoked(args)

\* What the model may put in a tool call.
ManagerCalls ==
    {[service |-> "databricks", tool |-> "get_databricks_status", args |-> a] :
        a \in {NoArgs, ("_workspace_url" :> "evil"), ("_auth_token" :> "evil")}}
    \cup {[service |-> "databricks", tool |-> "start_conversation",
           args |-> ("space_id" :> "A") @@ ("content" :> "hi")],
          [service |-> "databricks", tool |-> "list_spaces", args |-> NoArgs],
          [service |-> "snowflake", tool |-> "get_snowflake_status", args |-> NoArgs],
          [service |-> "databricks", tool |-> "no_such_tool", args |-> NoArgs]}
ToolbeltCalls ==
    {[name |-> n, args |-> a] :
        n \in {<<"get_databricks_status">>, <<"server", ".", "get_snowflake_status">>,
               <<"databricks", ".", "get_databricks_status">>,
               <<"server", "_", "get_databricks_status">>, <<"fake_tool">>},
        a \in {NoArgs, ("_auth_token" :> "evil")}}

NoCallYet ==
    [req |-> "", via |-> "", service |-> "", tool |-> <<>>, args |-> NoArgs,
     policy |-> None, outcome |-> "", error |-> "", passed |-> NoArgs]

Mgr == services_manager[1]

\* local_manager.py:352-371 get_services_manager, up to its first suspension:
\* the first caller creates the manager and awaits initialize(); later callers
\* set their policy, if they pass one, and get the manager back at once.
GetServicesManager(r) ==
    /\ rpc[r] = "idle"
    /\ LET policy == IF reqPass[r] THEN Some(reqPolicy[r]) ELSE None IN
        IF services_manager = None
        THEN /\ services_manager' = Some(LocalServicesManager(policy))
             /\ rpc' = [rpc EXCEPT ![r] = "init_db"]
        ELSE /\ services_manager' =
                    IF policy # None THEN Some(set_policy(Mgr, policy[1]))
                    ELSE services_manager
             /\ rpc' = [rpc EXCEPT ![r] = "ready"]
    /\ UNCHANGED <<services_status, initResult, reqPolicy, reqPass, lastCall, listing>>
    /\ UNCHANGED nonGateVars

\* local_manager.py:93-103: initialize() resumed when
\* initialize_databricks_service() has returned (True or False, it never raises).
InitializeDatabricks(r) ==
    /\ rpc[r] = "init_db"
    /\ \E res \in {"ok", "failed"} :
        initResult' = [initResult EXCEPT !["databricks"] = res]
    /\ services_manager' = Some([Mgr EXCEPT !.databricks_available =
            IF Mgr.policy = None THEN TRUE
            ELSE is_service_enabled(Mgr.policy[1], "databricks")])
    /\ services_status' = [services_status EXCEPT !["databricks"] = TRUE]
    /\ rpc' = [rpc EXCEPT ![r] = "init_sf"]
    /\ UNCHANGED <<reqPolicy, reqPass, lastCall, listing>>
    /\ UNCHANGED nonGateVars

\* local_manager.py:105-123: resumed when initialize_snowflake_service() has
\* returned; initialize() completes and get_services_manager returns.
InitializeSnowflake(r) ==
    /\ rpc[r] = "init_sf"
    /\ \E res \in {"ok", "failed"} :
        initResult' = [initResult EXCEPT !["snowflake"] = res]
    /\ services_manager' = Some([Mgr EXCEPT
            !.snowflake_available =
                IF Mgr.policy = None THEN TRUE
                ELSE is_service_enabled(Mgr.policy[1], "snowflake"),
            !.initialized = TRUE])
    /\ services_status' = [services_status EXCEPT !["snowflake"] = TRUE]
    /\ rpc' = [rpc EXCEPT ![r] = "ready"]
    /\ UNCHANGED <<reqPolicy, reqPass, lastCall, listing>>
    /\ UNCHANGED nonGateVars

\* A request dispatches a tool call through the manager it was given.
CallServiceTool(r) ==
    /\ rpc[r] = "ready"
    /\ \E c \in ManagerCalls :
        LET res == call_service_tool(Mgr, c.service, c.tool, c.args) IN
        lastCall' = [req |-> r, via |-> "manager", service |-> c.service,
                     tool |-> <<c.tool>>, args |-> c.args, policy |-> Mgr.policy,
                     outcome |-> res.outcome, error |-> res.error,
                     passed |-> res.passed]
    /\ UNCHANGED <<services_manager, services_status, initResult, reqPolicy,
                   reqPass, rpc, listing>>
    /\ UNCHANGED nonGateVars

\* A request dispatches a tool call through get_toolbelt(policy).execute_tool;
\* toolbelt.py:202-204: the policy handed to get_toolbelt is dropped.
ExecuteTool(r) ==
    /\ rpc[r] \in {"idle", "ready"}
    /\ \E c \in ToolbeltCalls :
        LET res == execute_tool(c.name, c.args) IN
        lastCall' = [req |-> r, via |-> "toolbelt", service |-> "",
                     tool |-> c.name, args |-> c.args, policy |-> None,
                     outcome |-> res.outcome, error |-> res.error,
                     passed |-> res.passed]
    /\ UNCHANGED <<services_manager, services_status, initResult, reqPolicy,
                   reqPass, rpc, listing>>
    /\ UNCHANGED nonGateVars

\* What list_available_tools returned, before any call of it.
NotListed == [called |-> FALSE, databricks |-> {}, snowflake |-> {}]

\* local_manager.py:279-306: the tools listed for one service.
ListedTools(mgr, service) ==
    IF ~(IF service = "databricks" THEN mgr.databricks_available
         ELSE mgr.snowflake_available)
    THEN {}
    ELSE IF mgr.policy = None THEN ServerTools[service]
    ELSE {tool \in ServerTools[service] :
            validate_operation(mgr.policy[1], service, tool, NoArgs)}

\* local_manager.py:262-324 list_available_tools
list_available_tools(mgr) ==
    [called |-> TRUE, databricks |-> ListedTools(mgr, "databricks"),
     snowflake |-> ListedTools(mgr, "snowflake")]

\* local_manager.py:326-345 cleanup: its only writes are the three flags,
\* made after both service cleanups have been awaited.
cleanup(mgr) ==
    [mgr EXCEPT !.initialized = FALSE, !.databricks_available = FALSE,
                !.snowflake_available = FALSE]

\* local_manager.py:81-91: a holder of the manager calls initialize() on it
\* again; on an initialized manager the call only reports the status.
Initialize(r) ==
    /\ rpc[r] = "ready"
    /\ ~Mgr.initialized
    /\ rpc' = [rpc EXCEPT ![r] = "init_db"]
    /\ UNCHANGED <<services_manager, services_status, initResult, reqPolicy,
                   reqPass, lastCall, listing>>
    /\ UNCHANGED nonGateVars

\* A holder of the manager sets its own policy on it.
SetPolicy(r) ==
    /\ rpc[r] = "ready"
    /\ services_manager' = Some(set_policy(Mgr, reqPolicy[r]))
    /\ UNCHANGED <<services_status, initResult, reqPolicy, reqPass, rpc,
                   lastCall, listing>>
    /\ UNCHANGED nonGateVars

\* A request lists the tools of the manager it was given.
ListAvailableTools(r) ==
    /\ rpc[r] = "ready"
    /\ listing' = list_available_tools(Mgr)
    /\ UNCHANGED <<services_manager, services_status, initResult, reqPolicy,
                   reqPass, rpc, lastCall>>
    /\ UNCHANGED nonGateVars

\* A holder of the manager calls cleanup() on it.
Cleanup(r) ==
    /\ rpc[r] = "ready"
    /\ services_manager' = Some(cleanup(Mgr))
    /\ UNCHANGED <<services_status, initResult, reqPolicy, reqPass, rpc,
                   lastCall, listing>>
    /\ UNCHANGED nonGateVars

\* The manager and toolbelt serving two concurrent requests.
Init ==
    /\ services_manager = None
    /\ services_status = [s \in Services |-> FALSE]
    /\ initResult = [s \in Services |-> "pending"]
    /\ reqPolicy \in {f \in [Requests -> UNION {RequestPolicies(r) : r \in Requests}] :
                        \A r \in Requests : f[r] \in RequestPolicies(r)}
    /\ reqPass \in [Requests -> BOOLEAN]
    /\ rpc = [r \in Requests |-> "idle"]
    /\ lastCall = NoCallYet
    /\ listing = NotListed
    /\ request = [model |-> "llama", stream |-> FALSE]
    /\ invokeOk = FALSE
    /\ events = <<>>
    /\ pos = 0
    /\ pc = "parked"
    /\ out = <<>>
    /\ completion_id = 0
    /\ uuids = 0
    /\ raisedAt = NotRaised
    /\ response = NoResponse
    /\ polPolicy = OperationToolingPolicy(None, None)
    /\ polCall = NoQuery
    /\ polResult = FALSE
    /\ polToken = NotAsked
    /\ parseInput = <<>>
    /\ parseResult = NotParsed
    /\ headers = [databricks |-> None, snowflake |-> None, spaces |-> <<>>,
                  clusters |-> <<>>, databases |-> <<>>]
    /\ built = NotBuilt
    /\ llmCall = NoAdapterCall
    /\ llmResult = NotCalled
    /\ invocations = 0
    /\ body = "none"

Next ==
    \/ \E r \in Requests : GetServicesManager(r)
    \/ \E r \in Requests : InitializeDatabricks(r)
    \/ \E r \in Requests : InitializeSnowflake(r)
    \/ \E r \in Requests : CallServiceTool(r)
    \/ \E r \in Requests : ExecuteTool(r)

Spec == Init /\ [][Next]_vars

\* One manager through the operations of LocalServicesManager that write its
\* fields, and list_available_tools, called by the requests that hold it.
\* call_service_tool (150-260) assigns no field of the manager; its
\* dispatches are explored in Spec.
ManagerNext ==
    \/ \E r \in Requests : GetServicesManager(r)
    \/ \E r \in Requests : InitializeDatabricks(r)
    \/ \E r \in Requests : InitializeSnowflake(r)
    \/ \E r \in Requests : Initialize(r)
    \/ \E r \in Requests : SetPolicy(r)
    \/ \E r \in Requests : ListAvailableTools(r)
    \/ \E r \in Requests : Cleanup(r)

SpecManager == Init /\ [][ManagerNext]_vars

\* One completion request through the gateway.
InitStream ==
    /\ request \in [model : Models, stream : BOOLEAN]
    /\ invokeOk \in BOOLEAN
    /\ events \in (IF request.model \in model_mapping /\ invokeOk
                   THEN SeqsUpTo(EventsOf(request.model), MaxEvents)
                   ELSE {<<>>})
    /\ pos = 0
    /\ pc = "start"
    /\ out = <<>>
    /\ completion_id = 0
    /\ uuids = 0
    /\ raisedAt = NotRaised
    /\ response = NoResponse
    /\ polPolicy = OperationToolingPolicy(None, None)
    /\ polCall = NoQuery
    /\ polResult = FALSE
    /\ polToken = NotAsked
    /\ services_manager = None
    /\ services_status = [s \in Services |-> FALSE]
    /\ initResult = [s \in Services |-> "pending"]
    /\ reqPolicy = [r \in Requests |-> OperationToolingPolicy(None, None)]
    /\ reqPass = [r \in Requests |-> FALSE]
    /\ rpc = [r \in Requests |-> "parked"]
    /\ lastCall = NoCallYet
    /\ listing = NotListed
    /\ parseInput = <<>>
    /\ parseResult = NotParsed
    /\ headers = [databricks |-> None, snowflake |-> None, spaces |-> <<>>,
                  clusters |-> <<>>, databases |-> <<>>]
    /\ built = NotBuilt
    /\ llmCall = NoAdapterCall
    /\ llmResult = NotCalled
    /\ invocations = 0
    /\ body = "none"

SpecStream == InitStream /\ [][StreamNext]_vars

\* One policy queried in isolation.
InitPolicy ==
    /\ polPolicy \in Policies
    /\ polCall = NoQuery
    /\ polResult = FALSE
    /\ polToken = NotAsked
    /\ request = [model |-> "llama", stream |-> FALSE]
    /\ invokeOk = FALSE
    /\ events = <<>>
    /\ pos = 0
    /\ pc = "parked"
    /\ out = <<>>
    /\ completion_id = 0
    /\ uuids = 0
    /\ raisedAt = NotRaised
    /\ response = NoResponse
    /\ services_manager = None
    /\ services_status = [s \in Services |-> FALSE]
    /\ initResult = [s \in Services |-> "pending"]
    /\ reqPolicy = [r \in Requests |-> OperationToolingPolicy(None, None)]
    /\ reqPass = [r \in Requests |-> FALSE]
    /\ rpc = [r \in Requests |-> "parked"]
    /\ lastCall = NoCallYet
    /\ listing = NotListed
    /\ parseInput = <<>>
    /\ parseResult = NotParsed
    /\ headers = [databricks |-> None, snowflake |-> None, spaces |-> <<>>,
                  clusters |-> <<>>, databases |-> <<>>]
    /\ built = NotBuilt
    /\ llmCall = NoAdapterCall
    /\ llmResult = NotCalled
    /\ invocations = 0
    /\ body = "none"

SpecPolicy == InitPolicy /\ [][PolicyNext]_vars

\* parse_tool_call applied to every text of at most MaxParseLen tokens.
InitParse ==
    /\ parseInput \in SeqsUpTo(ParseTokens, MaxParseLen)
    /\ parseResult = NotParsed
    /\ request = [model |-> "llama", stream |-> FALSE]
    /\ invokeOk = FALSE
    /\ events = <<>>
    /\ pos = 0
    /\ pc = "parked"
    /\ out = <<>>
    /\ completion_id = 0
    /\ uuids = 0
    /\ raisedAt = NotRaised
    /\ response = NoResponse
    /\ polPolicy = OperationToolingPolicy(None, None)
    /\ polCall = NoQuery
    /\ polResult = FALSE
    /\ polToken = NotAsked
    /\ services_manager = None
    /\ services_status = [s \in Services |-> FALSE]
    /\ initResult = [s \in Services |-> "pending"]
    /\ reqPolicy = [r \in Requests |-> OperationToolingPolicy(None, None)]
    /\ reqPass = [r \in Requests |-> FALSE]
    /\ rpc = [r \in Requests |-> "parked"]
    /\ lastCall = NoCallYet
    /\ listing = NotListed
    /\ headers = [databricks |-> None, snowflake |-> None, spaces |-> <<>>,
                  clusters |-> <<>>, databases |-> <<>>]
    /\ built = NotBuilt
    /\ llmCall = NoAdapterCall
    /\ llmResult = NotCalled
    /\ invocations = 0
    /\ body = "none"

SpecParse == InitParse /\ [][ParseNext]_vars

\* create_policy_from_headers applied to one request's headers.
InitHeaders ==
    /\ headers \in HeaderSets(MaxPairs)
    /\ built = NotBuilt
    /\ parseInput = <<>>
    /\ parseResult = NotParsed
    /\ request = [model |-> "llama", stream |-> FALSE]
    /\ invokeOk = FALSE
    /\ events = <<>>
    /\ pos = 0
    /\ pc = "parked"
    /\ out = <<>>
    /\ completion_id = 0
    /\ uuids = 0
    /\ raisedAt = NotRaised
    /\ response = NoResponse
    /\ polPolicy = OperationToolingPolicy(None, None)
    /\ polCall = NoQuery
    /\ polResult = FALSE
    /\ polToken = NotAsked
    /\ services_manager = None
    /\ services_status = [s \in Services |-> FALSE]
    /\ initResult = [s \in Services |-> "pending"]
    /\ reqPolicy = [r \in Requests |-> OperationToolingPolicy(None, None)]
    /\ reqPass = [r \in Requests |-> FALSE]
    /\ rpc = [r \in Requests |-> "parked"]
    /\ lastCall = NoCallYet
    /\ listing = NotListed
    /\ llmCall = NoAdapterCall
    /\ llmResult = NotCalled
    /\ invocations = 0
    /\ body = "none"

SpecHeaders == InitHeaders /\ [][HeaderNext]_vars

\* One call of an adapter.
InitAdapter ==
    /\ headers = [databricks |-> None, snowflake |-> None, spaces |-> <<>>,
                  clusters |-> <<>>, databases |-> <<>>]
    /\ built = NotBuilt
    /\ parseInput = <<>>
    /\ parseResult = NotParsed
    /\ request = [model |-> "llama", stream |-> FALSE]
    /\ invokeOk = FALSE
    /\ events = <<>>
    /\ pos = 0
    /\ pc = "parked"
    /\ out = <<>>
    /\ completion_id = 0
    /\ uuids = 0
    /\ raisedAt = NotRaised
    /\ response = NoResponse
    /\ polPolicy = OperationToolingPolicy(None, None)
    /\ polCall = NoQuery
    /\ polResult = FALSE
    /\ polToken = NotAsked
    /\ services_manager = None
    /\ services_status = [s \in Services |-> FALSE]
    /\ initResult = [s \in Services |-> "pending"]
    /\ reqPolicy = [r \in Requests |-> OperationToolingPolicy(None, None)]
    /\ reqPass = [r \in Requests |-> FALSE]
    /\ rpc = [r \in Requests |-> "parked"]
    /\ lastCall = NoCallYet
    /\ listing = NotListed
    /\ llmCall \in FormatCalls(MaxStops) \cup ParseCalls
    /\ llmResult = NotCalled
    /\ invocations = 0
    /\ body = "none"

SpecAdapter == InitAdapter /\ [][AdapterNext]_vars

\* ============================================================ properties
\* --------------------------------------------- manager, toolbelt, policy
Dispatched == lastCall.req # ""
\* The service whose capability a dispatch asked for.
CallService ==
    IF lastCall.via = "manager" THEN lastCall.service
    ELSE IF lastCall.tool[Len(lastCall.tool)] = "get_databricks_status" THEN "databricks"
    ELSE "snowflake"
ReservedArgs == {"_auth_token", "_workspace_url", "_account", "_user"}
\* The credential values a policy holds.
CredentialsOf(policy) ==
    (IF policy.databricks = None THEN {}
     ELSE {policy.databricks[1].token}
          \cup {policy.databricks[1].workspace_url[i] :
                    i \in DOMAIN policy.databricks[1].workspace_url})
    \cup (IF policy.snowflake = None THEN {}
          ELSE {policy.snowflake[1].token, policy.snowflake[1].account,
                policy.snowflake[1].user})

\* C1 (as claimed): every call_service_tool made for a request, whether or not
\* the request passed a policy to get_services_manager, is authorized against
\* that request's own policy and, when it reaches the implementation, carries
\* that policy's credentials.
\* (A call the manager refuses for want of any policy authorizes nothing.)
C1_OwnPolicyPerRequest ==
    (Dispatched /\ lastCall.via = "manager" /\ lastCall.policy # None) =>
        /\ lastCall.policy = Some(reqPolicy[lastCall.req])
        /\ lastCall.outcome = "invoked" =>
            lastCall.passed["_auth_token"] = TokenOf(lastCall.req)

\* C2 (as claimed): when the request's policy has the service of the requested
\* capability disabled or absent, a dispatch through the toolbelt or the
\* manager returns the envelope {success: false, error: "Unauthorized
\* operation..."} and the implementation is not invoked.
C2_UnauthorizedEnvelope ==
    (Dispatched /\ ~is_service_enabled(reqPolicy[lastCall.req], CallService)) =>
        /\ lastCall.outcome = "envelope"
        /\ lastCall.error = "UnauthorizedOperationError"

\* Whether a query names a resource, and whether that resource is in the
\* allowlist of the sub-policy it belongs to.
ResourceScoped(q) == DOMAIN q.kwargs \cap {"space_id", "cluster", "database"} # {}
ResourceAllowed(policy, q) ==
    /\ "space_id" \in DOMAIN q.kwargs =>
        (policy.databricks # None
         /\ is_space_allowed(policy.databricks[1], q.kwargs["space_id"]))
    /\ "cluster" \in DOMAIN q.kwargs =>
        (policy.snowflake # None
         /\ is_cluster_allowed(policy.snowflake[1], q.kwargs["cluster"]))
    /\ "database" \in DOMAIN q.kwargs =>
        (policy.snowflake # None
         /\ is_database_allowed(policy.snowflake[1], q.kwargs["database"]))

\* C3 (as claimed): validate_operation returns true for a resource-scoped
\* operation only if the named resource is in the corresponding allowlist; in
\* particular never for a service enabled with an empty allowlist.
C3_AllowlistDecides ==
    (polCall # NoQuery /\ ResourceScoped(polCall) /\ polResult) =>
        ResourceAllowed(polPolicy, polCall)

\* C4 (as claimed): in every dispatched call that reaches the implementation,
\* each reserved credential argument (_auth_token, _workspace_url, _account,
\* _user) holds a credential of the request's policy, never the value the
\* model supplied for it.
C4_CredentialsFromPolicy ==
    (Dispatched /\ lastCall.outcome = "invoked") =>
        \A a \in ReservedArgs \cap DOMAIN lastCall.passed :
            /\ lastCall.passed[a] \in CredentialsOf(reqPolicy[lastCall.req])
            /\ ~(a \in DOMAIN lastCall.args /\ lastCall.passed[a] = lastCall.args[a])

\* Service names asked about: the two services and names of no service.
ServiceNames == Services \cup {"other", ""}
Queried == polCall # NoQuery
\* The services of a policy whose sub-policy is present and enabled.
PresentAndOn(policy) ==
    {service \in Services :
        SubPolicy(policy, service) # None /\ SubPolicy(policy, service)[1].enabled}

\* C28: get_enabled_services() lists exactly the services whose sub-policy
\* is present and enabled, each once; for every service name, unknown names
\* included, the name is listed if and only if is_service_enabled is true of
\* it, if and only if validate_operation returns true for an operation of it;
\* a call of validate_operation returns accordingly.
C28_EnabledServicesAgree ==
    Queried =>
        LET listed == get_enabled_services(polPolicy) IN
        /\ Elements(listed) = PresentAndOn(polPolicy)
        /\ Len(listed) = Cardinality(PresentAndOn(polPolicy))
        /\ \A name \in ServiceNames :
            /\ InList(name, listed) <=> is_service_enabled(polPolicy, name)
            /\ is_service_enabled(polPolicy, name)
                    <=> \E q \in PolicyQueries :
                            /\ q.service = name
                            /\ validate_operation(polPolicy, name, q.operation, q.kwargs)
        /\ polResult <=> InList(polCall.service, listed)

C28_Witness ==
    /\ Queried
    /\ polCall.service = "snowflake"
    /\ polResult
    /\ polPolicy.databricks # None
    /\ ~polPolicy.databricks[1].enabled
    /\ get_enabled_services(polPolicy) = <<"snowflake">>

\* The request's call of get_services_manager or initialize() returns in this
\* step: its task had not been handed the manager and now holds it.
Returns(r) == rpc[r] # "ready" /\ rpc'[r] = "ready"

GateRefusals ==
    {"PolicyValidationError", "UnauthorizedOperationError", "Unknown service",
     "service not available", "No authentication token available"}
AuthorizedValidCall ==
    /\ Dispatched
    /\ lastCall.via = "manager"
    /\ lastCall.service \in Services
    /\ lastCall.tool[1] \in ServerTools[lastCall.service]
    /\ Binds(ToolParams(lastCall.tool[1]) \ ReservedArgs,
             ToolRequired(lastCall.tool[1]), lastCall.args)
    /\ lastCall.error \notin GateRefusals

\* C32: for every registered capability of an enabled service, an authorized
\* call_service_tool with valid model-supplied arguments invokes the
\* implementation with those arguments plus the injected credentials; the
\* injected credential arguments never make the call fail on argument
\* binding before the implementation runs.
C32_InjectedCredentialsBind ==
    AuthorizedValidCall =>
        /\ lastCall.outcome = "invoked"
        /\ "_auth_token" \in DOMAIN lastCall.passed
        /\ \A a \in DOMAIN lastCall.args : lastCall.passed[a] = lastCall.args[a]

\* The manager's availability flag of a service.
Available(mgr, service) ==
    IF service = "databricks" THEN mgr.databricks_available
    ELSE mgr.snowflake_available

\* C37: after initialize(), a service is marked available, and its status
\* entry marked initialized, only if its initialization succeeded; a service
\* whose initialize_*_service step failed is not marked available, is not
\* listed by list_available_tools and is not dispatched to by
\* call_service_tool.
C37_AvailableOnlyIfInitSucceeded ==
    \A service \in Services :
        (services_manager # None /\ initResult[service] = "failed") =>
            /\ ~Available(Mgr, service)
            /\ ~services_status[service]
            /\ ListedTools(Mgr, service) = {}
            /\ \A c \in ManagerCalls :
                c.service = service =>
                    call_service_tool(Mgr, service, c.tool, c.args).outcome # "invoked"

AdvertisedNames == available_tools \cup get_builtin_toolset

\* C40: every tool name advertised by discovery (Toolbelt.available_tools and
\* get_builtin_toolset) is resolved by Toolbelt.execute_tool to a capability:
\* executing an advertised name never returns the 'Unknown server tool'
\* result.
C40_AdvertisedNamesResolve ==
    (Dispatched /\ lastCall.via = "toolbelt" /\ lastCall.tool \in AdvertisedNames) =>
        /\ ResolveTool(lastCall.tool) # <<>>
        /\ lastCall.error # "Unknown server tool"

\* C39: get_service_token(service) returns a token only for a service that
\* is enabled in the policy; for a sub-policy that is present but disabled
\* and for an absent or unknown service it returns null.
C39_TokenOnlyIfEnabled ==
    (polToken.asked /\ ~is_service_enabled(polPolicy, polToken.service)) =>
        polToken.token = None

\* ------------------------------------------------ completion gateway
StreamEnded == pc \in {"sentinel", "errdone", "closed", "collected"}
StreamConsumed == pc \in {"closed", "collected"}
\* The run was cut short: the generator was closed at a yield.
Disconnected == pc = "disconnected"
SentinelIdx == {i \in 1..Len(out) : out[i].kind = "done"}
FinishIdx == {i \in 1..Len(out) : out[i].kind = "chunk" /\ out[i].finish # Null}
ErrorIdx == {i \in 1..Len(out) : out[i].kind = "chunk" /\ out[i].finish = "error"}
ContentIdx == {i \in 1..Len(out) : out[i].kind = "chunk" /\ out[i].content # None}

IsContentChunk(c) == c.kind = "chunk" /\ c.content # None
\* The texts of the content chunks yielded so far, in emission order.
ContentTexts ==
    LET cs == SelectSeq(out, IsContentChunk)
    IN  [i \in 1..Len(cs) |-> cs[i].content[1]]

\* The non-empty text fragments of a sequence of backend events, in order.
RECURSIVE Fragments(_)
Fragments(es) ==
    IF es = <<>> THEN <<>>
    ELSE IF Head(es).kind \in {"generation", "delta"} /\ Head(es).text # <<>>
    THEN <<Head(es).text>> \o Fragments(Tail(es))
    ELSE Fragments(Tail(es))

\* The backend's finish signal: a generation event with a stop_reason.
IsFinishEvent(e) == e.kind = "generation" /\ e.stop # ""
\* The index of the event at which the loop stops: the first finish event or
\* the first event whose reading raises; Len(events) when there is neither.
RECURSIVE StopIndexFrom(_)
StopIndexFrom(i) ==
    IF i >= Len(events) THEN Len(events)
    ELSE IF IsFinishEvent(events[i + 1]) \/ events[i + 1].kind = "bad" THEN i + 1
    ELSE StopIndexFrom(i + 1)
StopIndex == StopIndexFrom(0)

\* C5: every run of stream_chat_completion consumed to its end (normal end of
\* the backend events, a finish event, or an exception at any point) has
\* emitted the sentinel 'data: [DONE]' exactly once, as its last item; no
\* sentinel is ever followed by another item, and a run that has neither
\* been consumed to its end nor been cut short by a disconnect can always
\* take a further step.
C5_SentinelOnceAndLast ==
    /\ Cardinality(SentinelIdx) <= 1
    /\ \A i \in SentinelIdx : i = Len(out)
    /\ StreamEnded => (SentinelIdx = {Len(out)} /\ Len(out) >= 2)
    /\ (~StreamEnded /\ ~Disconnected) => SentinelIdx = {}
    /\ (~StreamConsumed /\ ~Disconnected) => ENABLED StreamNext

C5_Witness ==
    /\ pc = "closed"
    /\ raisedAt = NotRaised
    /\ FinishIdx # {}
    /\ Cardinality(ContentIdx) >= 2
    /\ out[Len(out)] = Sentinel

\* C6: once an exception has been caught, the stream holds exactly one chunk
\* with finish_reason "error"; it has an empty delta, is the first item after
\* the exception, and only the sentinel follows it: no content chunk and no
\* other finish_reason chunk comes after the exception.  A run without an
\* exception holds no error chunk.
C6_ErrorTerminal ==
    /\ raisedAt = NotRaised => ErrorIdx = {}
    /\ raisedAt # NotRaised =>
        /\ ErrorIdx = {raisedAt + 1}
        /\ out[raisedAt + 1].role = Null
        /\ out[raisedAt + 1].content = None
        /\ \A i \in 1..Len(out) :
            i > raisedAt + 1 => (i = raisedAt + 2 /\ out[i] = Sentinel)
        /\ \A i \in FinishIdx : i >= raisedAt + 1
        /\ StreamEnded => Len(out) = raisedAt + 2

C6_Witness ==
    /\ pc = "errdone"
    /\ raisedAt >= 2
    /\ ContentIdx # {}
    /\ out[raisedAt + 1].finish = "error"
    /\ out[raisedAt + 2] = Sentinel

\* C7 (as claimed): the first chunk of every stream carries
\* delta.role = "assistant", no content and a null finish_reason, also when
\* the model alias is unknown or the backend invocation fails.
C7_FirstChunkIsRole ==
    Len(out) >= 1 =>
        /\ out[1].kind = "chunk"
        /\ out[1].role = "assistant"
        /\ out[1].content = None
        /\ out[1].finish = Null

\* C8 (as claimed): every stream that has ended, for llama and nova alike,
\* holds exactly one chunk with a non-null finish_reason; it carries no
\* content and is the last chunk before the sentinel.
C8_ExactlyOneFinishChunk ==
    (StreamEnded /\ request.model \in model_mapping) =>
        /\ FinishIdx = {Len(out) - 1}
        /\ out[Len(out) - 1].content = None

\* C9: the content chunks emitted are, one chunk per fragment and in the same
\* order, the non-empty text fragments of the backend events the loop has
\* taken; an ended stream has taken the events up to and including the first
\* finish event (or the event whose reading raised), and none after it.
C9_ContentIsFragmentsInOrder ==
    /\ pc # "start" => ContentTexts = Fragments(SubSeq(events, 1, pos))
    /\ \A i \in 1..Len(ContentTexts) : ContentTexts[i] # <<>>
    /\ pos <= StopIndex
    /\ StreamEnded => pos = StopIndex

C9_Witness ==
    /\ pc = "closed"
    /\ raisedAt = NotRaised
    /\ pos < Len(events)
    /\ events[Len(events)].text # <<>>
    /\ \E i \in 1..pos : events[i].kind = "generation" /\ events[i].text = <<>>
    /\ Len(ContentTexts) = 1
    /\ Len(Fragments(events)) = 2

\* The text the backend generated up to the point the loop stopped.
RECURSIVE Concat(_)
Concat(ss) == IF ss = <<>> THEN <<>> ELSE Head(ss) \o Concat(Tail(ss))
GeneratedText == Concat(Fragments(SubSeq(events, 1, pos)))
TextBeforeMarker(text) == RStrip(SubSeq(text, 1, Find(text, "TOOL_START") - 1))

\* C10 (as claimed): when the generated text holds a parseable tool-call
\* marker block, the non-streaming response has finish_reason "tool_calls",
\* the text before the start marker (right-trimmed) as content and the parsed
\* call in tool_calls; the stream's terminal chunk has finish_reason
\* "tool_calls".
C10_ToolCallSurfaced ==
    (raisedAt = NotRaised /\ parse_tool_call(GeneratedText).kind = "call") =>
        /\ pc = "collected" =>
            /\ response.finish_reason = "tool_calls"
            /\ response.content = TextBeforeMarker(GeneratedText)
            /\ response.tool_calls = Some(parse_tool_call(GeneratedText))
        /\ pc = "closed" =>
            \E i \in FinishIdx : out[i].finish = "tool_calls"

\* C11 (as claimed): a request whose model alias is not in the alias table
\* is refused with a client error: no completion response is produced for it,
\* neither an item of a stream nor a non-streaming ChatCompletionResponse.
C11_UnknownAliasRefused ==
    request.model \notin model_mapping =>
        /\ request.stream => out = <<>>
        /\ response.kind # "response"

\* C12 (as claimed): on the non-streaming path no ChatCompletionResponse is
\* returned for a request whose backend call failed, at invocation or while
\* the backend events were read; in particular none with partial content.
C12_NoResponseAfterBackendFailure ==
    (~request.stream /\ request.model \in model_mapping /\ raisedAt # NotRaised) =>
        response.kind # "response"

\* C13 (as claimed): no dispatch through Toolbelt.execute_tool or
\* LocalServicesManager.call_service_tool propagates an exception to its
\* caller, whatever the tool name, the arguments and the policy state (no
\* policy set and unauthorized operation included).
C13_NoExceptionFromDispatch ==
    Dispatched => lastCall.outcome # "raised"

\* C14 (as claimed): for every registered capability c of service s the names
\* 's.c', 's_c' and bare 'c' all resolve to c, and execute_tool invokes it;
\* a name of no registered capability yields the UnknownTool envelope and
\* nothing is invoked.  (s: the qualifier the toolbelt advertises, "server",
\* or the capability's service.)
C14_NameFormsResolve ==
    (Dispatched /\ lastCall.via = "toolbelt") =>
        LET Forms(c) ==
                {<<c>>} \cup
                {<<q, sep, c>> : q \in {"server", "databricks", "snowflake"},
                                 sep \in {".", "_"}}
        IN  /\ \A c \in RegisteredTools :
                lastCall.tool \in Forms(c) =>
                    /\ ResolveTool(lastCall.tool) = <<c>>
                    /\ lastCall.outcome = "invoked"
            /\ (\A c \in RegisteredTools : lastCall.tool \notin Forms(c)) =>
                    /\ lastCall.outcome = "envelope"
                    /\ lastCall.error = "Unknown server tool"

\* ------------------------------------------------- tool-call parser
Parsed == parseResult # NotParsed
\* Marker blocks: optional leading text, the start marker, one JSON object
\* {"name", "arguments"} and the end marker, with optional whitespace around
\* the object.
ValidBlocks ==
    {b \in {lead \o <<"TOOL_START">> \o g1 \o <<ObjText>> \o g2 \o <<"TOOL_END">> :
                lead \in {<<>>, <<"Hel">>}, g1 \in {<<>>, <<"\n">>},
                g2 \in {<<>>, <<"\n">>}} :
        Len(b) <= MaxParseLen}
\* The call the object of a valid block describes.
BlockCall == [kind |-> "call", name |-> "server.get_status", arguments |-> "{}"]
\* The proper prefix of a token that a split inside it leaves.
HasPart(tok) == tok \in {"TOOL_START", ObjText, "TOOL_END"}
PartOf(tok) ==
    IF tok = "TOOL_START" THEN PartStart
    ELSE IF tok = ObjText THEN PartObjText
    ELSE PartEnd
\* The prefixes of a block cut strictly inside it: after the start of the
\* start marker and before the end of the end marker.
InsidePrefixes(b) ==
    LET s == Find(b, "TOOL_START") IN
    {SubSeq(b, 1, k) : k \in s..(Len(b) - 1)}
    \cup {SubSeq(b, 1, k) \o <<PartOf(b[k + 1])>> :
            k \in {j \in (s - 1)..(Len(b) - 1) : HasPart(b[j + 1])}}
BlockPrefixes == UNION {InsidePrefixes(b) : b \in ValidBlocks}
\* The text ends with the complete JSON object (and whitespace).
ObjectComplete(text) ==
    RStrip(text) # <<>> /\ RStrip(text)[Len(RStrip(text))] = ObjText

\* C15 (as claimed): for every text made of optional leading text, the start
\* marker, one JSON object {"name", "arguments"} and the end marker,
\* parse_tool_call returns the call with the object's name and the
\* serialization of the object's arguments.
C15_FullBlockParses ==
    (Parsed /\ parseInput \in ValidBlocks) => parseResult = BlockCall

C17_ParseNeverRaises ==
    (Parsed /\ Find(parseInput, "TOOL_START") # 0 /\ parseResult # BlockCall) =>
        parseResult = NoCall

\* ------------------------------------------------- header-derived policy
HeadersRead == built # NotBuilt
HeaderOf(service) ==
    IF service = "databricks" THEN headers.databricks ELSE headers.snowflake
OtherService(service) == IF service = "databricks" THEN "snowflake" ELSE "databricks"
\* The pairs of a service's enablement header, <<>> when it has none.
PairsOf(service) == IF HeaderOf(service) = None THEN <<>> ELSE HeaderOf(service)[1]
\* The positions of the pairs of a header whose key, trimmed and in lower
\* case, is `key`, and the trimmed value of the last of them ("" if none).
KeyIdx(pairs, key) ==
    {i \in 1..Len(pairs) : pairs[i].eq /\ Lower(StripStr(pairs[i].key)) = key}
LastValue(pairs, key) ==
    IF KeyIdx(pairs, key) = {} THEN ""
    ELSE StripStr(pairs[CHOOSE i \in KeyIdx(pairs, key) :
                            \A j \in KeyIdx(pairs, key) : j <= i].value)
\* What the header resolves `enabled` to.
EnabledOf(pairs) ==
    IF KeyIdx(pairs, "enabled") = {} THEN LastValue(pairs, "token") # ""
    ELSE Lower(LastValue(pairs, "enabled")) \in Truthy
\* The header asks for an enabled service without giving a token.
EnabledWithoutToken(service) ==
    EnabledOf(PairsOf(service)) /\ LastValue(PairsOf(service), "token") = ""
\* The Snowflake header asks for an enabled service without account or user.
SnowflakeLacksIdentity ==
    \/ LastValue(PairsOf("snowflake"), "account") = ""
    \/ LastValue(PairsOf("snowflake"), "user") = ""

\* C18 (as claimed): for every service and every header set whose enablement
\* header for the service contains Token=X, X non-empty, and no Enabled
\* pair, create_policy_from_headers succeeds and the policy has the service
\* enabled with token X.
C18_TokenEnables ==
    HeadersRead =>
        \A service \in Services :
            \A i \in KeyIdx(PairsOf(service), "token") :
                (StripStr(PairsOf(service)[i].value) # ""
                 /\ KeyIdx(PairsOf(service), "enabled") = {}) =>
                    /\ built.kind = "ok"
                    /\ is_service_enabled(built.value, service)
                    /\ get_service_token(built.value, service) =
                            Some(StripStr(PairsOf(service)[i].value))

\* C18 (amended): for every service and every header set whose enablement
\* header for the service has Token=X, X non-empty, as its last Token pair
\* and no Enabled pair: whenever create_policy_from_headers succeeds the
\* policy has the service enabled with token X, and it does succeed when the
\* other service has no enablement header and, for Snowflake, Account and
\* User are non-empty.
C18_TokenEnablesWhenBuilt ==
    HeadersRead =>
        \A service \in Services :
            (LastValue(PairsOf(service), "token") # ""
             /\ KeyIdx(PairsOf(service), "enabled") = {}) =>
                /\ built.kind = "ok" =>
                    /\ is_service_enabled(built.value, service)
                    /\ get_service_token(built.value, service) =
                            Some(LastValue(PairsOf(service), "token"))
                /\ (HeaderOf(OtherService(service)) = None
                    /\ (service = "snowflake" => ~SnowflakeLacksIdentity)) =>
                        built.kind = "ok"

C18_Witness ==
    /\ HeadersRead
    /\ built.kind = "ok"
    /\ headers.databricks = None
    /\ Len(PairsOf("snowflake")) = 3
    /\ KeyIdx(PairsOf("snowflake"), "enabled") = {}
    /\ get_service_token(built.value, "snowflake") = Some("Y")
    /\ is_service_enabled(built.value, "snowflake")

\* C19: if the enablement header of any service resolves enabled to true
\* while its token is empty or missing, create_policy_from_headers fails with
\* an HTTPException of status 400 and builds no policy, whatever the other
\* service's header; every policy that is built has, for each sub-policy
\* present, enabled => token non-empty.
C19_EnabledNeedsToken ==
    HeadersRead =>
        /\ (\E service \in Services : EnabledWithoutToken(service)) =>
                (built.kind = "HTTPException" /\ built.status = 400)
        /\ built.kind = "ok" =>
            /\ built.value.databricks # None =>
                (built.value.databricks[1].enabled =>
                    built.value.databricks[1].token # "")
            /\ built.value.snowflake # None =>
                (built.value.snowflake[1].enabled =>
                    built.value.snowflake[1].token # "")

C19_Witness ==
    /\ HeadersRead
    /\ headers.databricks = Some(<<Pair("Token", "X")>>)
    /\ EnabledWithoutToken("snowflake")
    /\ ~SnowflakeLacksIdentity
    /\ built.kind = "HTTPException"
    /\ built.names = {"token"}

\* C20 (as claimed): if the Snowflake header resolves enabled to true and
\* account or user is empty or missing, policy construction fails with a
\* client error naming the fields account and user and no policy is built;
\* a disabled Snowflake sub-policy without account or user is accepted.
C20_SnowflakeNeedsIdentity ==
    HeadersRead =>
        /\ (EnabledOf(PairsOf("snowflake")) /\ SnowflakeLacksIdentity) =>
            /\ built.kind = "HTTPException"
            /\ built.status = 400
            /\ built.names = {"account", "user"}
        /\ (PairsOf("snowflake") # <<>> /\ ~EnabledOf(PairsOf("snowflake"))
            /\ SnowflakeLacksIdentity /\ ~EnabledWithoutToken("databricks")) =>
            /\ built.kind = "ok"
            /\ built.value.snowflake # None
            /\ ~built.value.snowflake[1].enabled

\* C20 (amended): as claimed, except that when the Databricks header has
\* already failed validation (enabled without a token) the client error is
\* that validation error, naming the token, not account and user.
C20_SnowflakeNeedsIdentityAfterDatabricks ==
    HeadersRead =>
        /\ (EnabledOf(PairsOf("snowflake")) /\ SnowflakeLacksIdentity) =>
            /\ built.kind = "HTTPException"
            /\ built.status = 400
            /\ built.names = IF EnabledWithoutToken("databricks") THEN {"token"}
                             ELSE {"account", "user"}
        /\ (PairsOf("snowflake") # <<>> /\ ~EnabledOf(PairsOf("snowflake"))
            /\ SnowflakeLacksIdentity /\ ~EnabledWithoutToken("databricks")) =>
            /\ built.kind = "ok"
            /\ built.value.snowflake # None
            /\ ~built.value.snowflake[1].enabled

C20_Witness ==
    /\ HeadersRead
    /\ headers.databricks = Some(<<Pair("Token", "X")>>)
    /\ LastValue(PairsOf("snowflake"), "token") = "X"
    /\ LastValue(PairsOf("snowflake"), "account") = "acct"
    /\ LastValue(PairsOf("snowflake"), "user") = ""
    /\ built.kind = "HTTPException"
    /\ built.names = {"account", "user"}

\* The resource headers that belong to a service.
HasResourceHeaders(service) ==
    IF service = "databricks" THEN headers.spaces # <<>>
    ELSE headers.clusters # <<>> \/ headers.databases # <<>>
\* What holds of a policy whose sub-policy for the service is absent.
AbsentIsOff(policy, service) ==
    SubPolicy(policy, service) = None =>
        /\ ~is_service_enabled(policy, service)
        /\ get_service_token(policy, service) = None

\* C21 (as claimed): in every policy built, for each service the sub-policy
\* is absent if and only if the request carries no enablement header for
\* the service; resource headers alone create no sub-policy; an absent
\* sub-policy makes is_service_enabled false and get_service_token None.
C21_AbsentIffNoHeader ==
    (HeadersRead /\ built.kind = "ok") =>
        \A service \in Services :
            /\ SubPolicy(built.value, service) = None <=> HeaderOf(service) = None
            /\ AbsentIsOff(built.value, service)

\* C21 (amended): as claimed, except that the sub-policy is absent if and
\* only if the request carries no enablement header for the service or
\* carries it with an empty value.
C21_AbsentIffNoHeaderOrEmpty ==
    (HeadersRead /\ built.kind = "ok") =>
        \A service \in Services :
            /\ SubPolicy(built.value, service) = None
                    <=> HeaderOf(service) \in {None, Some(<<>>)}
            /\ AbsentIsOff(built.value, service)

C21_Witness ==
    /\ HeadersRead
    /\ built.kind = "ok"
    /\ headers.databricks = None
    /\ HasResourceHeaders("databricks")
    /\ built.value.databricks = None
    /\ built.value.snowflake # None
    /\ ~is_service_enabled(built.value, "databricks")
    /\ get_service_token(built.value, "databricks") = None

\* The spellings of an Enabled value the header grammar names.
Falsy == {"false", "0", "no", "off"}
\* The positions of the pairs of a header whose key is spelled `enabled` in
\* some letter case, surrounded by blanks or not.
EnabledIdx(pairs) ==
    {i \in 1..Len(pairs) : pairs[i].eq /\ pairs[i].key \in EnabledKeys}
SpelledFalse(pair) == Lower(StripStr(pair.value)) \in Falsy
SpelledTrue(pair) == Lower(StripStr(pair.value)) \in Truthy
PresentAndEnabled(service, flag) ==
    /\ SubPolicy(built.value, service) # None
    /\ SubPolicy(built.value, service)[1].enabled = flag

\* C22 (as claimed): with a non-empty token in the enablement header of a
\* service, an Enabled pair (its key in any letter case, trimmed) spelled
\* false/0/no/off yields a sub-policy present but disabled, and one spelled
\* true/1/yes/on yields an enabled sub-policy.
C22_SpellingDecides ==
    HeadersRead =>
        \A service \in Services :
            LastValue(PairsOf(service), "token") # "" =>
                \A i \in EnabledIdx(PairsOf(service)) :
                    /\ SpelledFalse(PairsOf(service)[i]) =>
                            (built.kind = "ok" /\ PresentAndEnabled(service, FALSE))
                    /\ SpelledTrue(PairsOf(service)[i]) =>
                            (built.kind = "ok" /\ PresentAndEnabled(service, TRUE))

\* C22 (amended): with a non-empty token in the enablement header of a
\* service, whenever the policy is built the last Enabled pair (its key in
\* any letter case, trimmed) decides: spelled false/0/no/off the sub-policy
\* is present but disabled, spelled true/1/yes/on it is enabled; and the
\* policy is built when the other service has no enablement header and, for
\* a Snowflake header spelled enabled, Account and User are non-empty.
C22_LastSpellingDecidesWhenBuilt ==
    HeadersRead =>
        \A service \in Services :
            (LastValue(PairsOf(service), "token") # ""
             /\ EnabledIdx(PairsOf(service)) # {}) =>
                LET pairs == PairsOf(service)
                    last == pairs[CHOOSE i \in EnabledIdx(pairs) :
                                    \A j \in EnabledIdx(pairs) : j <= i]
                IN  /\ built.kind = "ok" =>
                        /\ SpelledFalse(last) => PresentAndEnabled(service, FALSE)
                        /\ SpelledTrue(last) => PresentAndEnabled(service, TRUE)
                    /\ (HeaderOf(OtherService(service)) = None
                        /\ (SpelledFalse(last) \/ SpelledTrue(last))
                        /\ (service = "snowflake" /\ SpelledTrue(last)
                                => ~SnowflakeLacksIdentity)) =>
                            built.kind = "ok"

C22_Witness ==
    /\ HeadersRead
    /\ built.kind = "ok"
    /\ headers.databricks = Some(<<Pair("Token", "X"), Pair(" enabled ", "NO")>>)
    /\ PresentAndEnabled("databricks", FALSE)
    /\ get_service_token(built.value, "databricks") = Some("X")

\* The names a resource's header lines give: the trimmed, non-empty parts
\* between commas of each line, line after line.
RECURSIVE NamesGiven(_)
NamesGiven(lines) ==
    IF lines = <<>> THEN <<>>
    ELSE LET parts == SplitComma(lines[Len(lines)]) IN
         NamesGiven(SubSeq(lines, 1, Len(lines) - 1))
            \o SelectSeq([i \in 1..Len(parts) |-> NameOf(parts[i])], IsNonEmptyName)
\* The keys the two builders read from an enablement header.
KnownKeys == {"token", "enabled", "workspace_url", "workspace", "account", "user"}
IsKnownPair(pair) == ~pair.eq \/ Lower(StripStr(pair.key)) \in KnownKeys
HasUnknownKey(header) ==
    header # None /\ \E i \in 1..Len(header[1]) : ~IsKnownPair(header[1][i])
WithoutUnknownKeys(header) ==
    IF header = None THEN None ELSE Some(SelectSeq(header[1], IsKnownPair))

\* C23: in every policy built, the allowlist of each resource (spaces,
\* clusters, databases) of a present sub-policy holds exactly the trimmed,
\* non-empty names its headers give, in header order (none when there is no
\* such header); and removing the pairs with unknown keys from an
\* enablement header that keeps another pair gives the same result.
C23_AllowlistIsNamesGiven ==
    HeadersRead =>
        /\ built.kind = "ok" =>
            /\ built.value.databricks # None =>
                    built.value.databricks[1].spaces = NamesGiven(headers.spaces)
            /\ built.value.snowflake # None =>
                /\ built.value.snowflake[1].clusters = NamesGiven(headers.clusters)
                /\ built.value.snowflake[1].databases = NamesGiven(headers.databases)
        /\ (HasUnknownKey(headers.snowflake)
            /\ WithoutUnknownKeys(headers.snowflake) # Some(<<>>)) =>
                built = create_policy_from_headers(
                    [headers EXCEPT !.snowflake = WithoutUnknownKeys(headers.snowflake)])

\* C26: in every non-streaming response usage.completion_tokens is the
\* estimate max(1, len // 4) of the generated text (the gateway receives no
\* backend count), usage.prompt_tokens is at least 1, and total_tokens is
\* their sum.
C26_UsageIsEstimated ==
    response.kind = "response" =>
        /\ response.completion_tokens = estimate_tokens(CharLen(response.content))
        /\ response.prompt_tokens >= 1
        /\ response.total_tokens = response.prompt_tokens + response.completion_tokens

\* The chunks of a stream and the finish_reason of the last chunk that
\* carries one ("stop" when none does).
ChunkIdx == {i \in 1..Len(out) : out[i].kind = "chunk"}
TerminalFinish ==
    IF FinishIdx = {} THEN "stop"
    ELSE out[CHOOSE i \in FinishIdx : \A j \in FinishIdx : j <= i].finish

\* C27: when the stream ran without error, the non-streaming response is the
\* fold of the chunks it yielded: its id and created are those of every
\* chunk, its content is the concatenation of the content deltas in emission
\* order, and its finish_reason is that of the terminal chunk ("stop" when
\* no chunk carries one).
C27_ResponseIsFoldOfChunks ==
    (response.kind = "response" /\ raisedAt = NotRaised) =>
        /\ ChunkIdx # {}
        /\ \A i \in ChunkIdx :
                out[i].id = response.id /\ out[i].created = response.created
        /\ response.content = Concat(ContentTexts)
        /\ response.finish_reason = TerminalFinish

C27_Witness ==
    /\ response.kind = "response"
    /\ raisedAt = NotRaised
    /\ Len(ContentTexts) = 3
    /\ FinishIdx # {}
    /\ response.content = <<"Hel", "lo", "\n", "Hel">>
    /\ response.finish_reason = "stop"

\* C29: for every completion request, streaming or not, the backend is
\* invoked at most once, whatever fails (the invocation itself or an event
\* mid-stream), exactly once when the alias is known and the generator has
\* started, and no tool is dispatched while the response is produced.
C29_AtMostOneInvocation ==
    /\ invocations <= 1
    /\ (request.model \in model_mapping /\ pc # "start") => invocations = 1
    /\ lastCall = NoCallYet

C29_Witness ==
    /\ pc = "collected"
    /\ raisedAt > 0
    /\ events[pos].kind = "bad"
    /\ invocations = 1
    /\ response.finish_reason = "error"

\* C30: once the client has disconnected mid-stream (the generator was
\* closed at a yield), no further item is emitted and the backend's event
\* stream is not left open.
C30_DisconnectClosesBackend ==
    /\ [](Disconnected => body # "open")
    /\ [][Disconnected => out' = out]_vars

\* ------------------------------------------------------ model adapters
Formatted == llmResult # NotCalled /\ llmCall.fn = "format_messages"
ParsedResponse == llmResult # NotCalled /\ llmCall.fn = "parse_response"
\* The stop-sequence set of a payload: empty when the key is absent.
StopSet(payload) ==
    IF payload.stop_sequences = None THEN {} ELSE Elements(payload.stop_sequences[1])
\* The stop sequences the caller supplied: the string, or the list's elements.
CallerStops(stop) == Elements(stop.seqs)
\* The same, a stop given as the empty string counting as none supplied.
CallerStopsGiven(stop) ==
    IF stop.kind = "str" /\ stop.seqs[1] = "" THEN {} ELSE Elements(stop.seqs)

\* C24 (as claimed): for both adapters and every combination of tools and
\* stop value, the payload's stop-sequence set contains TOOL_END if and only
\* if tools is non-empty, and contains every caller-supplied stop sequence.
C24_ToolEndIffTools ==
    Formatted =>
        /\ "TOOL_END" \in StopSet(llmResult.payload) <=> ToolsTruthy(llmCall.tools)
        /\ CallerStops(llmCall.stop) \subseteq StopSet(llmResult.payload)

\* C24 (amended): the stop-sequence set is exactly TOOL_END, when tools is
\* non-empty, together with the caller-supplied stop sequences (a stop given
\* as the empty string counting as none): so it contains TOOL_END if and
\* only if tools is non-empty or the caller supplied TOOL_END itself.
C24_ToolEndIffToolsOrSupplied ==
    Formatted =>
        /\ "TOOL_END" \in StopSet(llmResult.payload)
                <=> (ToolsTruthy(llmCall.tools)
                     \/ "TOOL_END" \in CallerStopsGiven(llmCall.stop))
        /\ CallerStopsGiven(llmCall.stop) \subseteq StopSet(llmResult.payload)
        /\ StopSet(llmResult.payload)
                \subseteq CallerStopsGiven(llmCall.stop) \cup {"TOOL_END"}

C24_Witness ==
    /\ Formatted
    /\ llmCall.model = "nova"
    /\ llmCall.tools = Some(<<"get_status", "list_spaces">>)
    /\ llmCall.stop = StopList(<<"END", "">>)
    /\ llmResult.payload.stop_sequences = Some(<<"TOOL_END", "END", "">>)

\* Backend stop reasons that say the generation ran into its length limit.
LengthLike == {"length", "max_tokens"}

\* C25: for both adapters, parse_response maps a stop reason that is not
\* length-like (unknown and missing ones included) to "stop", a length-like
\* reason the backend uses to "length", and returns nothing else.
C25_StopUnlessLengthLike ==
    ParsedResponse =>
        LET given == llmCall.response.stop_reason IN
        /\ llmResult.parsed.finish_reason \in {"stop", "length"}
        /\ (given = None \/ given[1] \notin LengthLike) =>
                llmResult.parsed.finish_reason = "stop"
        /\ (given # None /\ given[1] \in LengthLike) =>
                llmResult.parsed.finish_reason = "length"

\* What the claim expects format_messages to be given for one numeric field:
\* the default when the field is absent, the supplied number otherwise (an
\* explicit null supplies no number).
ExpectedParam(json, default) ==
    IF ~json.given \/ json.value = None THEN default ELSE json.value[1]

\* C33: the request defaults (max_tokens 1000, temperature 0.7, top_p 1.0)
\* are applied only when the field is absent; an explicitly supplied value,
\* 0 included, is passed to format_messages unchanged.
C33_DefaultsOnlyWhenAbsent ==
    Formatted =>
        /\ llmResult.payload.max_tokens =
                ExpectedParam(llmCall.params.max_tokens, RequestDefaults.max_tokens)
        /\ llmResult.payload.temperature =
                ExpectedParam(llmCall.params.temperature, RequestDefaults.temperature)
        /\ llmResult.payload.top_p =
                ExpectedParam(llmCall.params.top_p, RequestDefaults.top_p)

\* The contents of a sequence of messages, in order.
Contents(messages) == [i \in DOMAIN messages |-> messages[i].content]
\* The payload's messages that the adapter did not add itself: all but the
\* tool system prompt and the prompt's closing assistant header.
CallerSegments(payload) ==
    LET FromCaller(m) == m.content \notin {SystemPromptText, ""}
    IN  FilterSeq(payload.messages, FromCaller)

\* C36: for both adapters and every tools value, format_messages carries
\* every caller-supplied message's content into the payload in the original
\* order; a caller-supplied system message is not dropped when tools is
\* non-empty.
C36_EveryMessageCarried ==
    Formatted =>
        Contents(CallerSegments(llmResult.payload)) = Contents(llmCall.messages)

\* ------------------------------------------- gateway chunks and adapters
\* C34: all chunks emitted for one streamed response (the role chunk, every
\* content chunk, the finish chunk and an error-terminal chunk if one is
\* emitted) carry the same id and the same created value.
C34_OneIdOneCreated ==
    \A i \in ChunkIdx, j \in ChunkIdx :
        /\ out[i].id = out[j].id
        /\ out[i].created = out[j].created

\* The finish chunks the stream loop emits for a backend stop reason.
StopChunkIdx == FinishIdx \ ErrorIdx
\* What the request's adapter makes of a response carrying a stop reason.
ParsedFinishReason(model, text, stop_reason) ==
    LET resp == BackendResponse(Some(text), Some(stop_reason), None, None)
    IN  IF model = "llama" THEN LlamaLLM_parse_response(resp).finish_reason
        ELSE NovaLLM_parse_response(resp).finish_reason

\* C35: for every backend stop reason, the finish_reason of the stream's
\* terminal chunk equals the finish_reason the adapter's parse_response
\* assigns to a response carrying the same stop reason; a length-limited
\* generation is "length" on both paths.  (The loop leaves at the event that
\* carried the stop reason, events[pos].)
C35_StreamAgreesWithParseResponse ==
    \A i \in StopChunkIdx :
        /\ pos \in 1..Len(events)
        /\ out[i].finish =
                ParsedFinishReason(request.model, events[pos].text, events[pos].stop)

====
